---- MODULE Spec2Model ----
(***************************************************************************)
(* Control plane of the AlphaZeroArcade loop controller:                   *)
(*   - ClientConnectionManager  (client_connection_manager.py)             *)
(*   - GpuContentionManager     (gpu_contention_manager.py)                *)
(*   - SelfPlayManager          (self_play_manager.py)                     *)
(*   - AlphaZeroManager         (manager.py: train_step and the model      *)
(*                               files)                                    *)
(* Each component has its own specification (SpecConn, SpecGpu, SpecGen0,  *)
(* SpecWorker, SpecGames, SpecTrain) over its own group of variables; a specification *)
(* leaves the variables of the other components unchanged.                 *)
(***************************************************************************)
EXTENDS Integers, Sequences, FiniteSets, TLC

\* ------------------------------------------------------------------------
\* Bounds of the model
\* ------------------------------------------------------------------------
MaxClients == 2      \* rows the clients table may grow to
MaxHandshakes == 4   \* handshakes the accept loop processes in one run
MaxGames == 2        \* game messages the self-play workers send in one run
MaxRows == 3         \* rows of one game: 1..MaxRows
MaxPositions == 3    \* params.max_positions_per_generation, when configured
MaxSamples == 2      \* training_params.samples_per_window()
MaxGen == 2          \* generations trained in one run

\* ------------------------------------------------------------------------
\* Values
\* ------------------------------------------------------------------------
None == "None"
NoClientId == 0      \* Python None in a client_id position (row ids start at 1)

IpAddresses == {"ip1", "ip2"}
Roles == {"self-play-server", "self-play-worker"}
CudaDevices == {"cuda:0"}
ManagerIds == {None, "m1", "m2"}

Handshakes == [ip_address : IpAddresses, role : Roles,
               cuda_device : CudaDevices, manager_id : ManagerIds]

VARIABLES
    \* ---- ClientConnectionManager ----
    connections,                  \* self._connections (list of ClientConnection)
    manager_id_to_worker_id_map,  \* self._manager_id_to_worker_id_map
    clients,                      \* rows of the clients table; id = position
    apc,                          \* position of the accept thread in _add_connection
    hs,                           \* the handshake being processed (msg)
    conns,                        \* local snapshot `conns` of _add_connection
    client_id,                    \* local `client_id` of _add_connection
    reply,                        \* outcome of the last finished _add_connection
    accepted,                     \* history: <<handshake, client_id>> of every accepted handshake
    n_handshakes                  \* handshakes processed so far

VARIABLES
    \* ---- SelfPlayManager: game ingestion ----
    max_positions_per_generation, \* params.max_positions_per_generation (NoLimit = None)
    budget_dict,                  \* self._budget_dict
    pending_game_data,            \* self._pending_game_data
    game_files,                   \* game files on disk
    games,                        \* committed rows of the games table
    self_play_metadata,           \* committed rows of self_play_metadata, by gen
    db_lock,                      \* self_play_db_conn_pool.db_lock: holder or NoThread
    gpc,                          \* position of each worker's receive thread
    use_data,                     \* the last _check_row_budget call of _handle_game and what followed
    n_total_augmented_positions,  \* local of _flush_pending_games
    tx,                           \* uncommitted writes of each thread's db connection
    notified,                     \* the last handle_new_self_play_positions(n) call, with the rows its flush inserted
    n_games                       \* game messages sent so far

gameVars == <<max_positions_per_generation, budget_dict, pending_game_data, game_files,
              games, self_play_metadata, db_lock, gpc, use_data,
              n_total_augmented_positions, tx, notified, n_games>>

VARIABLES
    \* ---- SelfPlayManager: gen-0 bootstrap and launch of self-play ----
    gen0_owner,                   \* self._gen0_owner (NoClientId = None)
    gen0_complete,                \* self._gen0_complete
    gen1_model_trained,           \* self._gen1_model_trained
    latest_model_generation,      \* organizer.get_latest_model_generation()
    last_game,                    \* last row of games: gen, cumulative_augmented_positions
    samples_per_window,           \* training_params.samples_per_window()
    rpc,                          \* position of each self-play server's receive thread
    alive,                        \* the server's end of the connection is open
    sent,                         \* messages sent to each server, in order
    mainpc,                       \* position of the main_loop thread
    main_complete,                \* argument `complete` of the main thread's _set_gen0_completion
    gen0_launch                   \* per server: locals and outcome of _launch_gen0_if_necessary

gen0Vars == <<gen0_owner, gen0_complete, gen1_model_trained, latest_model_generation,
              last_game, samples_per_window, rpc, alive, sent, mainpc, main_complete,
              gen0_launch>>

VARIABLES
    \* ---- GpuContentionTable (one per gpu) ----
    active,                       \* active[table][domain]
    lock_holder,                  \* lock.held_by of each table (None when free)
    ratings_prioritized,          \* ratings priority is elevated on the table
    default_training_gpu,         \* controller.default_training_gpu_id
    \* ---- SelfPlayManager: one self-play worker on gpu WorkerGpu ----
    pending_pause_ack,            \* 'pending_pause_ack' in conn.aux
    pending_unpause_ack,          \* 'pending_unpause_ack' in conn.aux
    aux_gen,                      \* conn.aux['gen'] (-1 when absent)
    wpc,                          \* position of the worker-manager thread (_manage_worker)
    wrecv,                        \* position of the worker's receive thread
    walive,                       \* the worker's end of the connection is open
    to_worker,                    \* messages sent to the worker, not yet read by it
    to_ctrl,                      \* messages sent by the worker, not yet handled
    opc,                          \* position of the TRAINING and RATINGS lock users
    shutdown_requested,           \* request_shutdown was called
    cleared_by,                   \* what removed the pending flag of the last pause/unpause
    returned_unmatched,           \* a _pause/_unpause returned with no ack and no disconnect
    disc_in_pause,                \* the worker closed after a pause was sent and before acking it
    worker_state                  \* "new", then "paused" once a pause sent to the worker was
                                  \* acknowledged, "unpaused" once an unpause was sent to it

tableVars == <<active, lock_holder, ratings_prioritized, default_training_gpu>>

workerVars == <<pending_pause_ack, pending_unpause_ack, aux_gen, wpc, wrecv, walive,
                to_worker, to_ctrl, opc, shutdown_requested, cleared_by,
                returned_unmatched, disc_in_pause, worker_state>>

connVars == <<connections, manager_id_to_worker_id_map, clients, apc, hs, conns,
              client_id, reply, accepted, n_handshakes>>

\* ---- GpuContentionManager.set_ratings_priority: one record of locals per caller ----
VARIABLES
    srp,                          \* caller -> [pc, elevate, ratings_tables, currently_elevated]
    tables_created,               \* keys of self._table: the gpus that have a table
    training_table                \* last return of get_gpu_lock_table_for_training

gpuVars == <<srp, tables_created, training_table>>

\* ---- AlphaZeroManager: the run directory and the training thread ----
VARIABLES
    models_dir,                   \* state of each file name of models/
    checkpoints_dir,              \* state of each file name of checkpoints/
    players_dir,                  \* generations g with a file players/gen-{g}.txt
    tpc,                          \* position of the training thread (run, train_step)
    train_gen,                    \* local gen of train_step
    model_loaded,                 \* outcome of the last load of the latest model file
    worker_aux_gen,               \* conn.aux['gen'] of each self-play worker connection
    weights_sent                  \* last broadcast_weights to each worker connection

trainVars == <<models_dir, checkpoints_dir, players_dir, tpc, train_gen, model_loaded,
               worker_aux_gen, weights_sent>>

\* ---- SelfPlayManager: the retraining preamble of the server receive threads ----
VARIABLES
    requires_retraining,          \* organizer.requires_retraining()
    retrain_needed,               \* self._retrain_needed
    retrain_signalled,            \* signal_retraining_complete was called
    rtmain,                       \* the controller did / did not yet run setup()
    rtpc,                         \* position of each server's connection and receive thread
    rt_sent,                      \* messages sent to each server
    rt_handled,                   \* number of messages of each server handled
    rt_held                       \* the server's preamble found retraining needed

retrainVars == <<requires_retraining, retrain_needed, retrain_signalled, rtmain, rtpc,
                 rt_sent, rt_handled, rt_held>>

\* ---- SelfPlayManager: the restart-timer thread of one self-play server ----
VARIABLES
    tmpc,                         \* position of the thread (_launch_self_play_restart_loop)
    tm_alive,                     \* the server's end of the connection is open
    tm_active,                    \* conn.active
    tm_restarts                   \* `restart` messages sent to the server

timerVars == <<tmpc, tm_alive, tm_active, tm_restarts>>

\* ---- AlphaZeroManager.fork_from: the rest of the parent run, and the child run ----
VARIABLES
    self_play_data_dir,           \* generations g with a directory self-play-data/gen-{g}
    ratings_db,                   \* ratings.db of the parent run: the mcts_gen of its rows
    child_models,                 \* symlinks in models/ of the child run
    child_players,                \* symlinks in players/ of the child run
    child_checkpoints,            \* symlinks in checkpoints/ of the child run
    child_self_play_data,         \* symlinks in self-play-data/ of the child run
    child_ratings_db,             \* ratings.db of the child run
    n_copied,                     \* shutil.copy calls made into the child run
    fork_txt,                     \* fork.txt of the child run
    fork_calls,                   \* calls of fork_from made on the child run
    fork_gen                      \* gen argument of the latest call

forkVars == <<self_play_data_dir, ratings_db, child_models, child_players,
              child_checkpoints, child_self_play_data, child_ratings_db, n_copied,
              fork_txt, fork_calls, fork_gen>>

\* ---- DatabaseConnectionManager: the four connection pools ----
VARIABLES
    db_conns,                     \* state of each thread's connection in each pool
    db_closed                     \* threads for which close_db_conns has returned

dbVars == <<db_conns, db_closed>>

\* ---- LoopController.run, main_loop and accept_clients ----
VARIABLES
    run_pc,                       \* position of the main thread in run
    shutdown_code,                \* local shutdown_code of run
    error_flag,                   \* data.error_signaled()
    shutdowns,                    \* codes of the data.shutdown calls made, in order
    main_loop_pc,                 \* position of the main_loop thread
    accept_pc,                    \* position of the accept_clients thread
    added                         \* client types handed to a subcontroller

runVars == <<run_pc, shutdown_code, error_flag, shutdowns, main_loop_pc, accept_pc, added>>

\* ---- SelfPlayManager: the worker-manager threads of each worker connection ----
VARIABLES
    wm_conn,                      \* state of each self-play worker connection
    wm_inbox,                     \* messages of each worker not yet handled
    wm_sent,                      \* number of messages each worker has sent
    wm_threads                    \* live worker-manager threads of each worker connection

mgrVars == <<wm_conn, wm_inbox, wm_sent, wm_threads>>

\* ---- RatingsServer: the receive loop, the run-match threads and the controller ----
VARIABLES
    rs_running,                   \* self._running
    rs_recv_loop,                 \* position of the _recv_loop thread
    run_match,                    \* position of each run-match thread
    rs_sent,                      \* messages the server has sent, in order
    rs_inbox,                     \* messages sent to the server, not yet received
    rs_shutdown_requested,        \* request_shutdown was called
    ctl_open,                     \* the loop controller's end of the socket is open
    ctl_read,                     \* number of messages of rs_sent the controller has read
    ctl_ready,                    \* `ready` messages read and not yet answered
    ctl_requests,                 \* match-requests the controller has sent
    ctl_quit                      \* the controller has sent `quit`

rsVars == <<rs_running, rs_recv_loop, run_match, rs_sent, rs_inbox, rs_shutdown_requested,
            ctl_open, ctl_read, ctl_ready, ctl_requests, ctl_quit>>


vars == <<connVars, gameVars, gen0Vars, tableVars, workerVars, gpuVars, trainVars, retrainVars, timerVars, forkVars, dbVars, runVars, mgrVars, rsVars>>
notConnVars == <<gameVars, gen0Vars, tableVars, workerVars, gpuVars, trainVars, retrainVars, timerVars, forkVars, dbVars, runVars, mgrVars, rsVars>>
notGameVars == <<connVars, gen0Vars, tableVars, workerVars, gpuVars, trainVars, retrainVars, timerVars, forkVars, dbVars, runVars, mgrVars, rsVars>>
notGen0Vars == <<connVars, gameVars, tableVars, workerVars, gpuVars, trainVars, retrainVars, timerVars, forkVars, dbVars, runVars, mgrVars, rsVars>>
notWorkerVars == <<connVars, gameVars, gen0Vars, gpuVars, trainVars, retrainVars, timerVars, forkVars, dbVars, runVars, mgrVars, rsVars>>
notGpuVars == <<connVars, gameVars, gen0Vars, workerVars, trainVars, retrainVars, timerVars, forkVars, dbVars, runVars, mgrVars, rsVars>>
notTrainVars == <<connVars, gameVars, gen0Vars, tableVars, workerVars, gpuVars, retrainVars, timerVars, forkVars, dbVars, runVars, mgrVars, rsVars>>
notRetrainVars == <<connVars, gameVars, gen0Vars, tableVars, workerVars, gpuVars, trainVars, timerVars, forkVars, dbVars, runVars, mgrVars, rsVars>>
notTimerVars == <<connVars, gameVars, gen0Vars, tableVars, workerVars, gpuVars, trainVars, retrainVars, forkVars, dbVars, runVars, mgrVars, rsVars>>
notForkVars == <<connVars, gameVars, gen0Vars, tableVars, workerVars, gpuVars, trainVars, retrainVars, timerVars, dbVars, runVars, mgrVars, rsVars>>
notDbVars == <<connVars, gameVars, gen0Vars, tableVars, workerVars, gpuVars, trainVars, retrainVars, timerVars, forkVars, runVars, mgrVars, rsVars>>
notRunVars == <<connVars, gameVars, gen0Vars, tableVars, workerVars, gpuVars, trainVars, retrainVars, timerVars, forkVars, dbVars, mgrVars, rsVars>>
notMgrVars == <<connVars, gameVars, gen0Vars, tableVars, workerVars, gpuVars, trainVars, retrainVars, timerVars, forkVars, dbVars, runVars, rsVars>>
notRsVars == <<connVars, gameVars, gen0Vars, tableVars, workerVars, gpuVars, trainVars, retrainVars, timerVars, forkVars, dbVars, runVars, mgrVars>>

\* ========================================================================
\* ClientConnectionManager
\* ========================================================================

\* GpuId(ip_address, cuda_device)
GpuId(ip_address, cuda_device) == <<ip_address, cuda_device>>

\* ClientRole(role): the enum member of a role string; members are compared
\* by the role they stand for.
ClientRole(role) == role

\* ClientConnection(domain, client_role, client_id, socket, start_timestamp, gpu_id)
ClientConnection(role, id, gpu_id) ==
    [client_role |-> ClientRole(role), client_id |-> id, client_gpu_id |-> gpu_id]

SeqToSet(s) == {s[i] : i \in 1..Len(s)}

\* mutant of clashing_conns: the role test is inverted
clashing_conns_wrong_role(cs, gpu_id, role) ==
    SelectSeq(cs, LAMBDA c : c.client_gpu_id = gpu_id /\ c.client_role # ClientRole(role))

\* clashing_conns = [c for c in conns if c.client_gpu_id == gpu_id and c.client_role == role]
clashing_conns(cs, gpu_id, role) ==
    SelectSeq(cs, LAMBDA c : c.client_gpu_id = gpu_id /\ c.client_role = ClientRole(role))

\* client_id in [c.client_id for c in conns]
client_id_in_use(cs, id) == id \in {c.client_id : c \in SeqToSet(cs)}

\* (ip_address, role, cuda_device) of a handshake / of a clients row
Attributes(h) == <<h.ip_address, h.role, h.cuda_device>>

\* mutant of lookup_client_id: the map is never consulted
lookup_client_id_forget(manager_id) == NoClientId

\* client_id = self._manager_id_to_worker_id_map.get(manager_id, None)
lookup_client_id(manager_id) ==
    IF manager_id \in DOMAIN manager_id_to_worker_id_map
    THEN manager_id_to_worker_id_map[manager_id] ELSE NoClientId

\* The handshake-ack carrying a rejection (reply = {'type': 'handshake-ack', 'rejection': ...}),
\* with what was true when the handshake arrived.
Rejection(h, why, prior, clash) ==
    [kind |-> "rejection", hs |-> h, rejection |-> why, client_id |-> NoClientId,
     inserted |-> FALSE, prior |-> prior, clash |-> clash]

NoReply == [kind |-> "none"]

\* A registered connection has the (role, gpu_id) of handshake h.
RegisteredClash(h) ==
    \E c \in SeqToSet(connections) :
        /\ c.client_gpu_id = GpuId(h.ip_address, h.cuda_device)
        /\ c.client_role = h.role

\* History read at the arrival of a handshake: the client ids handed out to earlier
\* accepted handshakes with the same (manager_id, ip, role, cuda_device) whose
\* connection is no longer registered.
PriorIds(h) ==
    {a[2] : a \in {b \in accepted : b[1] = h /\ ~client_id_in_use(connections, b[2])}}

\* remove(conn)
remove(c) ==
    /\ connections' = SelectSeq(connections, LAMBDA x : x.client_id # c.client_id)
    /\ UNCHANGED <<manager_id_to_worker_id_map, clients, apc, hs, conns, client_id,
                   reply, accepted, n_handshakes>>
    /\ UNCHANGED notConnVars

Disconnect == \E c \in SeqToSet(connections) : remove(c)

\* _add_connection, lines 42-69: accept, receive the handshake, look up the client id,
\* snapshot the connection list, and reject a role/gpu clash or a client id in use.
Handshake(h) ==
    /\ apc = "accept"
    /\ n_handshakes < MaxHandshakes
    /\ n_handshakes' = n_handshakes + 1
    /\ LET id == lookup_client_id(h.manager_id)
           gpu_id == GpuId(h.ip_address, h.cuda_device)
           snapshot == connections
           prior == PriorIds(h)
           clash == RegisteredClash(h)
       IN  IF clashing_conns(snapshot, gpu_id, h.role) # <<>>
           THEN /\ reply' = Rejection(h, "connection of same role/cuda-device from same ip already exists", prior, clash)
                /\ UNCHANGED <<apc, hs, conns, client_id>>
           ELSE IF client_id_in_use(snapshot, id)
           THEN /\ reply' = Rejection(h, "illegal reuse of client-id", prior, clash)
                /\ UNCHANGED <<apc, hs, conns, client_id>>
           ELSE /\ apc' = "resolve"
                /\ hs' = [h |-> h, prior |-> prior, clash |-> clash]
                /\ conns' = snapshot
                /\ client_id' = id
                /\ reply' = NoReply
    /\ UNCHANGED <<connections, manager_id_to_worker_id_map, clients, accepted>>
    /\ UNCHANGED notConnVars

RecvHandshake == \E h \in Handshakes : Handshake(h)

\* Types a client may put in its first message instead of 'handshake'
OtherMsgTypes == {"ready", "bogus"}

\* _add_connection, lines 45-47, with a first message whose type is not 'handshake': the
\* assert of line 47 raises out of _add_connection into the except branch of
\* _accept_connections (lines 36-38), which calls request_shutdown(1); the accept loop is
\* over.
BadFirstMessage(type) ==
    /\ apc = "accept"
    /\ n_handshakes < MaxHandshakes
    /\ type # "handshake"
    /\ n_handshakes' = n_handshakes + 1
    /\ apc' = "request_shutdown"
    /\ UNCHANGED <<connections, manager_id_to_worker_id_map, clients, hs, conns, client_id,
                   reply, accepted>>
    /\ UNCHANGED notConnVars

RecvOtherMessage == \E type \in OtherMsgTypes : BadFirstMessage(type)

\* mutant of attributes_match: the clients row is not compared
attributes_match_always(actual_tuple, expected_tuple) == TRUE

\* line 111: actual_tuple != expected_tuple, negated
attributes_match(actual_tuple, expected_tuple) == actual_tuple = expected_tuple

\* _add_connection, lines 85-122: insert a clients row, or validate the row of the
\* client id being reused.
Resolve ==
    /\ apc = "resolve"
    /\ IF client_id = NoClientId
       THEN /\ Len(clients) < MaxClients
            /\ clients' = Append(clients, Attributes(hs.h))
            /\ client_id' = Len(clients) + 1
            /\ manager_id_to_worker_id_map' =
                 IF hs.h.manager_id # None
                 THEN [m \in DOMAIN manager_id_to_worker_id_map \cup {hs.h.manager_id} |->
                         IF m = hs.h.manager_id THEN Len(clients) + 1
                         ELSE manager_id_to_worker_id_map[m]]
                 ELSE manager_id_to_worker_id_map
            /\ apc' = "register_new"
            /\ UNCHANGED <<reply, hs, conns>>
       ELSE /\ IF ~attributes_match(clients[client_id], Attributes(hs.h))
               THEN /\ reply' = Rejection(hs.h, "worker attributes changed since last connection",
                                          hs.prior, hs.clash)
                    /\ apc' = "accept"
               ELSE /\ apc' = "register_old"
                    /\ UNCHANGED reply
            /\ UNCHANGED <<clients, client_id, manager_id_to_worker_id_map, hs, conns>>
    /\ UNCHANGED <<connections, accepted, n_handshakes>>
    /\ UNCHANGED notConnVars

\* _add_connection, lines 125-140, then add_server / add_worker: the connection is
\* appended to the list and the handshake-ack carrying client_id is sent.
Register ==
    /\ apc \in {"register_new", "register_old"}
    /\ connections' = Append(connections,
          ClientConnection(hs.h.role, client_id, GpuId(hs.h.ip_address, hs.h.cuda_device)))
    /\ reply' = [kind |-> "ack", hs |-> hs.h, rejection |-> None, client_id |-> client_id,
                 inserted |-> (apc = "register_new"), prior |-> hs.prior, clash |-> hs.clash]
    /\ accepted' = accepted \cup {<<hs.h, client_id>>}
    /\ apc' = "accept"
    /\ UNCHANGED <<manager_id_to_worker_id_map, clients, hs, conns, client_id, n_handshakes>>
    /\ UNCHANGED notConnVars


\* ========================================================================
\* SelfPlayManager: game ingestion (_handle_game, _handle_metrics, flush)
\* ========================================================================
NoLimit == -1        \* max_positions_per_generation is None
NoThread == 0
Workers == {1, 2}    \* self-play worker connections, one receive thread each
Gens == {0, 1}

\* msg of type 'game': gen, rows, flush (start/end timestamps are the game's identity)
GameMsgs == [type : {"game"}, gen : Gens, rows : 1..MaxRows, flush : BOOLEAN]
MetricsMsgs == [type : {"metrics"}, gen : Gens]

RECURSIVE SumRows(_)
SumRows(S) == IF S = {} THEN 0
              ELSE LET x == CHOOSE y \in S : TRUE IN x.rows + SumRows(S \ {x})

\* return cumulative_rows < self._controller.params.max_positions_per_generation
budget_verdict(cumulative_rows, rows) ==
    cumulative_rows < max_positions_per_generation

\* mutant of check_row_budget: the early return of lines 88-89 is missing
check_row_budget_no_early_return(gen, rows) ==
    <<budget_verdict(budget_dict[gen], rows), [budget_dict EXCEPT ![gen] = @ + rows]>>

\* _check_row_budget(gen, rows): <<returned value, budget_dict afterwards>>
check_row_budget(gen, rows) ==
    IF gen = 0 \/ max_positions_per_generation = NoLimit
    THEN <<TRUE, budget_dict>>
    ELSE <<budget_verdict(budget_dict[gen], rows),
           [budget_dict EXCEPT ![gen] = @ + rows]>>

\* _handle_game, lines 409-438: budget check, the file is read off the socket (and written
\* unless the game is dropped), and the game is appended to the pending list.
HandleGame(w, msg) ==
    /\ gpc[w] = "recv"
    /\ n_games < MaxGames
    /\ n_games' = n_games + 1
    /\ LET verdict == check_row_budget(msg.gen, msg.rows)
           game == [client_id |-> w, gen |-> msg.gen, id |-> n_games + 1, rows |-> msg.rows]
       IN  /\ budget_dict' = verdict[2]
           /\ use_data' = [set |-> TRUE, value |-> verdict[1], gen |-> msg.gen,
                           rows |-> msg.rows, cumulative_rows |-> budget_dict[msg.gen],
                           written |-> verdict[1], appended |-> verdict[1]]
           /\ game_files' = IF verdict[1] THEN game_files \cup {game} ELSE game_files
           /\ pending_game_data' = IF verdict[1] THEN Append(pending_game_data, game)
                                   ELSE pending_game_data
    /\ gpc' = [gpc EXCEPT ![w] = IF msg.flush THEN "lock" ELSE "recv"]
    /\ UNCHANGED <<max_positions_per_generation, games, self_play_metadata, db_lock,
                   n_total_augmented_positions, tx, notified>>
    /\ UNCHANGED notGameVars

RecvGame == \E w \in Workers, msg \in GameMsgs : HandleGame(w, msg)

\* _handle_metrics, lines 394-399: a metrics message always flushes.
HandleMetrics(w, msg) ==
    /\ gpc[w] = "recv"
    /\ gpc' = [gpc EXCEPT ![w] = "lock"]
    /\ UNCHANGED <<max_positions_per_generation, budget_dict, pending_game_data, game_files,
                   games, self_play_metadata, db_lock, use_data,
                   n_total_augmented_positions, tx, notified, n_games>>
    /\ UNCHANGED notGameVars

RecvMetrics == \E w \in Workers, msg \in MetricsMsgs : HandleMetrics(w, msg)

\* with self._controller.self_play_db_conn_pool.db_lock:
AcquireDbLock(w) ==
    /\ gpc[w] = "lock"
    /\ db_lock = NoThread
    /\ db_lock' = w
    /\ gpc' = [gpc EXCEPT ![w] = "count"]
    /\ tx' = [tx EXCEPT ![w] = [meta |-> <<>>, rows |-> {}]]
    /\ UNCHANGED <<max_positions_per_generation, budget_dict, pending_game_data, game_files,
                   games, self_play_metadata, use_data,
                   n_total_augmented_positions, notified, n_games>>
    /\ UNCHANGED notGameVars

\* n_games_per_gen / n_augmented_positions_per_gen of the pending list
PerGen(pending) ==
    [g \in {pending[i].gen : i \in 1..Len(pending)} |->
        LET of_g == {pending[i] : i \in {j \in 1..Len(pending) : pending[j].gen = g}}
        IN  [games |-> Cardinality(of_g), augmented_positions |-> SumRows(of_g)]]

\* _flush_pending_games, lines 475-506: count the pending games per gen and update the
\* aggregates (_flush_pending_games_helper) on the thread's connection.
FlushCount(w) ==
    /\ gpc[w] = "count"
    /\ IF pending_game_data = <<>>
       THEN /\ n_total_augmented_positions' = [n_total_augmented_positions EXCEPT ![w] = 0]
            /\ gpc' = [gpc EXCEPT ![w] = "commit"]
            /\ UNCHANGED tx
       ELSE /\ n_total_augmented_positions' =
                 [n_total_augmented_positions EXCEPT ![w] = SumRows(SeqToSet(pending_game_data))]
            /\ tx' = [tx EXCEPT ![w].meta = PerGen(pending_game_data)]
            /\ gpc' = [gpc EXCEPT ![w] = "insert"]
    /\ UNCHANGED <<max_positions_per_generation, budget_dict, pending_game_data, game_files,
                   games, self_play_metadata, db_lock, use_data, notified, n_games>>
    /\ UNCHANGED notGameVars

\* cursor.executemany('INSERT INTO games ...', self._pending_game_data)
rows_to_insert(pending) == SeqToSet(pending)

\* _flush_pending_games, lines 508-509
FlushInsert(w) ==
    /\ gpc[w] = "insert"
    /\ tx' = [tx EXCEPT ![w].rows = rows_to_insert(pending_game_data)]
    /\ gpc' = [gpc EXCEPT ![w] = "reset"]
    /\ UNCHANGED <<max_positions_per_generation, budget_dict, pending_game_data, game_files,
                   games, self_play_metadata, db_lock, use_data,
                   n_total_augmented_positions, notified, n_games>>
    /\ UNCHANGED notGameVars

\* _flush_pending_games, line 510: self._pending_game_data = []
FlushReset(w) ==
    /\ gpc[w] = "reset"
    /\ pending_game_data' = <<>>
    /\ gpc' = [gpc EXCEPT ![w] = "commit"]
    /\ UNCHANGED <<max_positions_per_generation, budget_dict, game_files,
                   games, self_play_metadata, db_lock, use_data,
                   n_total_augmented_positions, tx, notified, n_games>>
    /\ UNCHANGED notGameVars

\* INSERT OR IGNORE INTO self_play_metadata (gen); UPDATE ... SET games = games + ?, ...
ApplyMeta(meta, delta) ==
    [g \in DOMAIN meta \cup DOMAIN delta |->
        LET old == IF g \in DOMAIN meta THEN meta[g]
                   ELSE [games |-> 0, augmented_positions |-> 0]
        IN  IF g \in DOMAIN delta
            THEN [games |-> old.games + delta[g].games,
                  augmented_positions |-> old.augmented_positions + delta[g].augmented_positions]
            ELSE old]

\* db_conn.commit(), and the end of the `with db_lock` block
Commit(w) ==
    /\ gpc[w] = "commit"
    /\ db_lock = w
    /\ games' = games \cup tx[w].rows
    /\ self_play_metadata' = ApplyMeta(self_play_metadata, tx[w].meta)
    /\ db_lock' = NoThread
    /\ gpc' = [gpc EXCEPT ![w] = "notify"]
    /\ UNCHANGED <<max_positions_per_generation, budget_dict, pending_game_data, game_files,
                   use_data, n_total_augmented_positions, tx, notified, n_games>>
    /\ UNCHANGED notGameVars

\* self._controller.handle_new_self_play_positions(n_augmented_positions)
Notify(w) ==
    /\ gpc[w] = "notify"
    /\ notified' = [set |-> TRUE, n |-> n_total_augmented_positions[w],
                     inserted |-> SumRows(tx[w].rows),
                     committed |-> tx[w].rows \subseteq games]
    /\ gpc' = [gpc EXCEPT ![w] = "recv"]
    /\ UNCHANGED <<max_positions_per_generation, budget_dict, pending_game_data, game_files,
                   games, self_play_metadata, db_lock, use_data,
                   n_total_augmented_positions, tx, n_games>>
    /\ UNCHANGED notGameVars

FlushPendingGames == \E w \in Workers : FlushCount(w) \/ FlushInsert(w) \/ FlushReset(w)

LockDb == \E w \in Workers : AcquireDbLock(w)

CommitDb == \E w \in Workers : Commit(w)

NotifyTraining == \E w \in Workers : Notify(w)

GamesDefaults ==
    /\ budget_dict = [g \in Gens |-> 0]
    /\ pending_game_data = <<>>
    /\ game_files = {}
    /\ games = {}
    /\ self_play_metadata = <<>>
    /\ db_lock = NoThread
    /\ gpc = [w \in Workers |-> "recv"]
    /\ use_data = [set |-> FALSE]
    /\ n_total_augmented_positions = [w \in Workers |-> 0]
    /\ tx = [w \in Workers |-> [meta |-> <<>>, rows |-> {}]]
    /\ notified = [set |-> FALSE]
    /\ n_games = 0

IdleGames == GamesDefaults /\ max_positions_per_generation = NoLimit

NextGames == RecvGame \/ RecvMetrics \/ LockDb \/ FlushPendingGames \/ CommitDb \/ NotifyTraining


\* ========================================================================
\* SelfPlayManager: gen-0 bootstrap (_handle_ready, _launch_gen0_if_necessary,
\* _handle_gen0_complete, _handle_server_disconnect, wait_for_gen0_completion)
\* ========================================================================
Servers == {11, 12, 13}   \* client ids of the self-play servers
NoRow == -1               \* games is empty: fetchone() returns None

\* mutant of num_additional_gen0_positions_needed: the recorded positions are ignored
num_additional_gen0_positions_needed_total == samples_per_window

\* mutant of num_additional_gen0_positions_needed: one position more than the shortfall
num_additional_gen0_positions_needed_plus_one ==
    samples_per_window - (IF last_game.gen = 0 THEN last_game.cumulative_augmented_positions
                          ELSE 0) + 1

\* _num_additional_gen0_positions_needed()
num_additional_gen0_positions_needed ==
    IF last_game.gen = NoRow THEN samples_per_window
    ELSE IF last_game.gen > 0 THEN 0
    ELSE IF samples_per_window - last_game.cumulative_augmented_positions > 0
         THEN samples_per_window - last_game.cumulative_augmented_positions
         ELSE 0

\* gen-0 positions in the games table: cumulative_augmented_positions of the last gen-0 row
gen0_positions_recorded ==
    IF last_game.gen = 0 THEN last_game.cumulative_augmented_positions ELSE 0

NotComputed == -1    \* _launch_gen0_if_necessary returned before line 189
NotSent == -1        \* no start-gen0 was sent to the server
NotLaunched == [decided |-> FALSE, was_complete |-> FALSE, complete |-> FALSE, positions |-> 0,
                additional_gen0_rows_needed |-> NotComputed, max_rows |-> NotSent]

\* mutant of set_gen0_completion: completion is declared whatever the argument
set_gen0_completion_always(complete) == TRUE

\* _set_gen0_completion(complete): the new value of self._gen0_complete
set_gen0_completion(complete) == IF gen0_complete THEN gen0_complete ELSE complete

\* mutant of gen0_owner_is_none: the wait is skipped
gen0_owner_is_none_nowait == TRUE

\* self._gen0_cond.wait_for(lambda: self._gen0_owner is None)
gen0_owner_is_none == gen0_owner = NoClientId

\* conn.socket.send_json(data): appends to what the server was sent; a send to a server
\* that closed its end either still succeeds or raises SocketSendException.
SendOutcomes(s) == IF alive[s] THEN {"ok"} ELSE {"ok", "SocketSendException"}

\* The server sends `ready`; _server_msg_handler calls _handle_ready.
Ready(s) ==
    /\ rpc[s] = "connected"
    /\ alive[s]
    /\ rpc' = [rpc EXCEPT ![s] = "launch_gen0"]
    /\ UNCHANGED <<gen0_owner, gen0_complete, gen1_model_trained, latest_model_generation,
                   last_game, samples_per_window, alive, sent, mainpc, main_complete>>
    /\ UNCHANGED gen0_launch
    /\ UNCHANGED notGen0Vars

\* _launch_gen0_if_necessary, lines 184-194 (one critical section of self._gen0_lock)
LaunchGen0IfNecessary(s) ==
    /\ rpc[s] = "launch_gen0"
    /\ gen0_owner_is_none
    /\ IF gen0_complete
       THEN /\ rpc' = [rpc EXCEPT ![s] = "launch_self_play"]
            /\ UNCHANGED <<gen0_owner, gen0_complete>>
       ELSE IF num_additional_gen0_positions_needed = 0
       THEN /\ gen0_complete' = set_gen0_completion(TRUE)
            /\ rpc' = [rpc EXCEPT ![s] = "launch_self_play"]
            /\ UNCHANGED gen0_owner
       ELSE /\ gen0_owner' = s
            /\ rpc' = [rpc EXCEPT ![s] = "launch_gen0_self_play"]
            /\ UNCHANGED gen0_complete
    /\ gen0_launch' = [gen0_launch EXCEPT ![s] =
          [decided |-> TRUE,
           was_complete |-> gen0_complete,
           complete |-> gen0_complete',
           positions |-> gen0_positions_recorded,
           additional_gen0_rows_needed |->
              IF gen0_complete THEN NotComputed ELSE num_additional_gen0_positions_needed,
           max_rows |-> NotSent]]
    /\ UNCHANGED <<gen1_model_trained, latest_model_generation, last_game,
                   samples_per_window, alive, sent, mainpc, main_complete>>
    /\ UNCHANGED notGen0Vars

\* _launch_gen0_self_play: {'type': 'start-gen0', 'max_rows': num_rows}
LaunchGen0SelfPlay(s) ==
    /\ rpc[s] = "launch_gen0_self_play"
    /\ \E outcome \in SendOutcomes(s) :
         IF outcome = "ok"
         THEN /\ sent' = [sent EXCEPT ![s] = Append(@, "start-gen0")]
              /\ gen0_launch' = [gen0_launch EXCEPT ![s].max_rows =
                                   gen0_launch[s].additional_gen0_rows_needed]
              /\ rpc' = [rpc EXCEPT ![s] = "gen0"]
         ELSE /\ rpc' = [rpc EXCEPT ![s] = "disconnect"]
              /\ UNCHANGED <<sent, gen0_launch>>
    /\ UNCHANGED <<gen0_owner, gen0_complete, gen1_model_trained, latest_model_generation,
                   last_game, samples_per_window, alive, mainpc, main_complete>>
    /\ UNCHANGED notGen0Vars

\* The workers of the gen-0 owner record a gen-0 game of one position.
Gen0Game ==
    /\ \E s \in Servers : rpc[s] = "gen0" /\ alive[s]
    /\ num_additional_gen0_positions_needed > 0
    /\ last_game' = [gen |-> 0,
                     cumulative_augmented_positions |->
                        IF last_game.gen = NoRow THEN 1
                        ELSE last_game.cumulative_augmented_positions + 1]
    /\ UNCHANGED <<gen0_owner, gen0_complete, gen1_model_trained, latest_model_generation,
                   samples_per_window, rpc, alive, sent, mainpc, main_complete>>
    /\ UNCHANGED gen0_launch
    /\ UNCHANGED notGen0Vars

\* mutant of gen0_complete_asserts: the asserts are not evaluated
gen0_complete_asserts_off(s) == TRUE

\* _handle_gen0_complete, lines 340-342: assert conn.client_id == self._gen0_owner and
\* assert n == 0
gen0_complete_asserts(s) ==
    /\ s = gen0_owner
    /\ num_additional_gen0_positions_needed = 0

\* The owner sends `gen0-complete` once its rows are recorded; _handle_gen0_complete,
\* lines 339-345 (one critical section of self._gen0_lock).
HandleGen0Complete(s) ==
    /\ rpc[s] = "gen0"
    /\ alive[s]
    /\ gen0_complete_asserts(s)
    /\ gen0_owner' = NoClientId
    /\ gen0_complete' = set_gen0_completion(TRUE)
    /\ rpc' = [rpc EXCEPT ![s] = "launch_self_play"]
    /\ UNCHANGED <<gen1_model_trained, latest_model_generation, last_game,
                   samples_per_window, alive, sent, mainpc, main_complete>>
    /\ UNCHANGED gen0_launch
    /\ UNCHANGED notGen0Vars

\* A server sends `gen0-complete` whatever its state: before its `ready`, as owner with
\* rows still missing, or after it was sent `start`. _server_msg_handler, lines 130-131.
RecvGen0Complete(s) ==
    /\ rpc[s] \in {"connected", "gen0", "self_play"}
    /\ alive[s]
    /\ rpc' = [rpc EXCEPT ![s] = "handle_gen0_complete"]
    /\ UNCHANGED <<gen0_owner, gen0_complete, gen1_model_trained, latest_model_generation,
                   last_game, samples_per_window, alive, sent, mainpc, main_complete>>
    /\ UNCHANGED gen0_launch
    /\ UNCHANGED notGen0Vars

\* _handle_gen0_complete, lines 339-345, on a message from any server: a failed assert
\* raises out of the handler with self._gen0_lock released and nothing assigned, and the
\* receive loop escalates it to request_shutdown.
HandleGen0CompleteMsg(s) ==
    /\ rpc[s] = "handle_gen0_complete"
    /\ IF gen0_complete_asserts(s)
       THEN /\ gen0_owner' = NoClientId
            /\ gen0_complete' = set_gen0_completion(TRUE)
            /\ rpc' = [rpc EXCEPT ![s] = "launch_self_play"]
       ELSE /\ rpc' = [rpc EXCEPT ![s] = "request_shutdown"]
            /\ UNCHANGED <<gen0_owner, gen0_complete>>
    /\ UNCHANGED <<gen1_model_trained, latest_model_generation, last_game,
                   samples_per_window, alive, sent, mainpc, main_complete>>
    /\ UNCHANGED gen0_launch
    /\ UNCHANGED notGen0Vars

\* mutant of gen1_model_exists: the models directory is not looked at
gen1_model_exists_never == FALSE

\* line 213: organizer.get_latest_model_generation() >= 1
gen1_model_exists == latest_model_generation >= 1

\* _launch_self_play, lines 211-214: entry of the gen-1 wait
LaunchSelfPlay(s) ==
    /\ rpc[s] = "launch_self_play"
    /\ gen1_model_trained' = IF gen1_model_trained THEN TRUE ELSE gen1_model_exists
    /\ rpc' = [rpc EXCEPT ![s] = "wait_gen1"]
    /\ UNCHANGED <<gen0_owner, gen0_complete, latest_model_generation, last_game,
                   samples_per_window, alive, sent, mainpc, main_complete>>
    /\ UNCHANGED gen0_launch
    /\ UNCHANGED notGen0Vars

\* _launch_self_play, lines 214-226: the wait ends, `assert gen > 0` (line 218) is
\* evaluated on get_latest_model_generation() and {'type': 'start'} is sent
SendStart(s) ==
    /\ rpc[s] = "wait_gen1"
    /\ gen1_model_trained
    /\ IF latest_model_generation > 0
       THEN \E outcome \in SendOutcomes(s) :
              IF outcome = "ok"
              THEN /\ sent' = [sent EXCEPT ![s] = Append(@, "start")]
                   /\ rpc' = [rpc EXCEPT ![s] = "self_play"]
              ELSE /\ rpc' = [rpc EXCEPT ![s] = "disconnect"]
                   /\ UNCHANGED sent
       ELSE /\ rpc' = [rpc EXCEPT ![s] = "AssertionError"]
            /\ UNCHANGED sent
    /\ UNCHANGED <<gen0_owner, gen0_complete, gen1_model_trained, latest_model_generation,
                   last_game, samples_per_window, alive, mainpc, main_complete>>
    /\ UNCHANGED gen0_launch
    /\ UNCHANGED notGen0Vars

\* The server closes its end of the connection.
ServerCloses(s) ==
    /\ rpc[s] \notin {"gone", "disconnect"}
    /\ alive[s]
    /\ alive' = [alive EXCEPT ![s] = FALSE]
    /\ UNCHANGED <<gen0_owner, gen0_complete, gen1_model_trained, latest_model_generation,
                   last_game, samples_per_window, rpc, sent, mainpc, main_complete>>
    /\ UNCHANGED gen0_launch
    /\ UNCHANGED notGen0Vars

\* The receive loop finds the connection closed (recv fails, or a send raised):
\* _handle_server_disconnect, lines 102-106.
HandleServerDisconnect(s) ==
    /\ \/ rpc[s] = "disconnect"
       \/ rpc[s] \in {"connected", "gen0", "self_play"} /\ ~alive[s]
    /\ IF s = gen0_owner
       THEN /\ gen0_owner' = NoClientId
            /\ gen0_complete' = set_gen0_completion(num_additional_gen0_positions_needed = 0)
       ELSE UNCHANGED <<gen0_owner, gen0_complete>>
    /\ rpc' = [rpc EXCEPT ![s] = "gone"]
    /\ UNCHANGED <<gen1_model_trained, latest_model_generation, last_game,
                   samples_per_window, alive, sent, mainpc, main_complete>>
    /\ UNCHANGED gen0_launch
    /\ UNCHANGED notGen0Vars

\* wait_for_gen0_completion, line 50: the argument of _set_gen0_completion is evaluated
MainCheckGen0 ==
    /\ mainpc = "check_gen0"
    /\ main_complete' = (num_additional_gen0_positions_needed = 0)
    /\ mainpc' = "set_gen0"
    /\ UNCHANGED <<gen0_owner, gen0_complete, gen1_model_trained, latest_model_generation,
                   last_game, samples_per_window, rpc, alive, sent>>
    /\ UNCHANGED gen0_launch
    /\ UNCHANGED notGen0Vars

\* wait_for_gen0_completion, line 50: _set_gen0_completion runs without self._gen0_lock;
\* its test of self._gen0_complete (line 165) and its assignment (line 168) are two steps.
MainTestGen0 ==
    /\ mainpc = "set_gen0"
    /\ mainpc' = IF gen0_complete THEN "wait_gen0" ELSE "assign_gen0"
    /\ UNCHANGED <<gen0_owner, gen0_complete, gen1_model_trained, latest_model_generation,
                   last_game, samples_per_window, rpc, alive, sent, main_complete>>
    /\ UNCHANGED gen0_launch
    /\ UNCHANGED notGen0Vars

MainAssignGen0 ==
    /\ mainpc = "assign_gen0"
    /\ gen0_complete' = main_complete
    /\ mainpc' = "wait_gen0"
    /\ UNCHANGED <<gen0_owner, gen1_model_trained, latest_model_generation,
                   last_game, samples_per_window, rpc, alive, sent, main_complete>>
    /\ UNCHANGED gen0_launch
    /\ UNCHANGED notGen0Vars

\* mutant of gen0_wait_over: the wait of line 52 lets the main thread through at once
gen0_wait_over_always == TRUE

\* wait_for_gen0_completion, line 52: self._gen0_cond.wait_for(lambda: self._gen0_complete)
gen0_wait_over == gen0_complete

\* wait_for_gen0_completion, lines 51-52
MainWaitGen0 ==
    /\ mainpc = "wait_gen0"
    /\ gen0_wait_over
    /\ mainpc' = "train_gen1"
    /\ UNCHANGED <<gen0_owner, gen0_complete, gen1_model_trained, latest_model_generation,
                   last_game, samples_per_window, rpc, alive, sent, main_complete>>
    /\ UNCHANGED gen0_launch
    /\ UNCHANGED notGen0Vars

\* train_gen1_model_if_necessary: the gen-1 model is trained and its file appears, unless
\* a model exists already.
TrainGen1 ==
    /\ mainpc = "train_gen1"
    /\ latest_model_generation' = IF latest_model_generation = 0 THEN 1
                                  ELSE latest_model_generation
    /\ mainpc' = "notify_of_new_model"
    /\ UNCHANGED <<gen0_owner, gen0_complete, gen1_model_trained,
                   last_game, samples_per_window, rpc, alive, sent, main_complete>>
    /\ UNCHANGED gen0_launch
    /\ UNCHANGED notGen0Vars

\* notify_of_new_model, lines 78-85; it is called after the gen-1 model is trained, and
\* (a call made while the latest generation is still 0) before it.
NotifyOfNewModel ==
    /\ mainpc \in {"train_gen1", "notify_of_new_model"}
    /\ gen1_model_trained' = IF latest_model_generation > 1 THEN gen1_model_trained ELSE TRUE
    /\ mainpc' = IF mainpc = "notify_of_new_model" THEN "train_loop" ELSE mainpc
    /\ UNCHANGED <<gen0_owner, gen0_complete, latest_model_generation,
                   last_game, samples_per_window, rpc, alive, sent, main_complete>>
    /\ UNCHANGED gen0_launch
    /\ UNCHANGED notGen0Vars

\* main_loop, line 88: training_subcontroller.wait_until_enough_training_data(); the run
\* is followed until generation MaxGen
MainWaitUntilEnoughTrainingData ==
    /\ mainpc = "train_loop"
    /\ latest_model_generation < MaxGen
    /\ mainpc' = "train_step"
    /\ UNCHANGED <<gen0_owner, gen0_complete, gen1_model_trained, latest_model_generation,
                   last_game, samples_per_window, rpc, alive, sent, main_complete>>
    /\ UNCHANGED gen0_launch
    /\ UNCHANGED notGen0Vars

\* main_loop, line 89: training_subcontroller.train_step(); the model of the next
\* generation appears
MainTrainStep ==
    /\ mainpc = "train_step"
    /\ latest_model_generation' = latest_model_generation + 1
    /\ mainpc' = "train_loop"
    /\ UNCHANGED <<gen0_owner, gen0_complete, gen1_model_trained,
                   last_game, samples_per_window, rpc, alive, sent, main_complete>>
    /\ UNCHANGED gen0_launch
    /\ UNCHANGED notGen0Vars

RestartGen == 3      \* generation reached by the run a restarted controller takes up

\* A new run: no model, no game.
NewRun ==
    /\ latest_model_generation = 0
    /\ last_game = [gen |-> NoRow, cumulative_augmented_positions |-> 0]

\* A run taken up at generation RestartGen: models and games up to it.
Restart ==
    /\ latest_model_generation = RestartGen
    /\ last_game = [gen |-> RestartGen, cumulative_augmented_positions |-> 1]

Gen0Defaults ==
    /\ gen0_owner = NoClientId
    /\ gen0_complete = FALSE
    /\ gen1_model_trained = FALSE
    /\ rpc = [s \in Servers |-> "connected"]
    /\ alive = [s \in Servers |-> TRUE]
    /\ sent = [s \in Servers |-> <<>>]
    /\ mainpc = "check_gen0"
    /\ main_complete = FALSE
    /\ gen0_launch = [s \in Servers |-> NotLaunched]

IdleGen0 == Gen0Defaults /\ NewRun /\ samples_per_window = MaxSamples

HandleReady == \E s \in Servers : Ready(s) \/ LaunchGen0IfNecessary(s) \/ LaunchGen0SelfPlay(s)

Gen0Complete == \E s \in Servers : HandleGen0Complete(s)

LaunchSelfPlaySteps == \E s \in Servers : LaunchSelfPlay(s) \/ SendStart(s)

ServerDisconnect == \E s \in Servers : ServerCloses(s) \/ HandleServerDisconnect(s)

WaitForGen0Completion == MainCheckGen0 \/ MainTestGen0 \/ MainAssignGen0 \/ MainWaitGen0

NextGen0 ==
    \/ HandleReady \/ Gen0Game \/ Gen0Complete \/ LaunchSelfPlaySteps \/ ServerDisconnect
    \/ WaitForGen0Completion \/ TrainGen1 \/ NotifyOfNewModel

\* main_loop, lines 87-89: while self.data.active()
TrainLoop == MainWaitUntilEnoughTrainingData \/ MainTrainStep

\* The gen-0 bootstrap followed by the training loop of the main thread
NextMainLoop == NextGen0 \/ TrainLoop

Gen0CompleteMsg == \E s \in Servers : RecvGen0Complete(s) \/ HandleGen0CompleteMsg(s)

\* The gen-0 bootstrap with servers that send `gen0-complete` at any time
NextGen0Msg == NextGen0 \/ Gen0CompleteMsg


\* ========================================================================
\* GpuContentionTable: the lock and priority state of one gpu
\* ========================================================================
Domains == {"TRAINING", "SELF_PLAY", "RATINGS"}
Tables == {"gpu0", "gpu1"}     \* two gpus of one host
WorkerGpu == "gpu0"            \* gpu of the modelled self-play worker

\* Priorities: TRAINING over SELF_PLAY over RATINGS; elevated RATINGS over both.
Priority(t, d) ==
    CASE d = "TRAINING" -> 2
      [] d = "SELF_PLAY" -> 1
      [] d = "RATINGS" -> IF ratings_prioritized[t] THEN 3 ELSE 0

\* has_highest_priority(domain): no other active domain outranks it
has_highest_priority(t, d) ==
    \A e \in Domains \ {d} : active[t][e] => Priority(t, e) < Priority(t, d)

\* mutant of lock_available: the holder of the lock is not looked at
lock_available_any_holder(t, d) == active[t][d] /\ has_highest_priority(t, d)

\* acquire_lock(domain) proceeds: domain is the highest-priority active domain and the
\* lock is free
lock_available(t, d) ==
    active[t][d] /\ has_highest_priority(t, d) /\ lock_holder[t] = None

\* activate(domain)
activate(t, d) ==
    /\ active' = [active EXCEPT ![t][d] = TRUE]
    /\ UNCHANGED <<lock_holder, ratings_prioritized, default_training_gpu>>

\* deactivate(domain): also releases the lock if domain holds it
deactivate(t, d) ==
    /\ active' = [active EXCEPT ![t][d] = FALSE]
    /\ lock_holder' = IF lock_holder[t] = d THEN [lock_holder EXCEPT ![t] = None]
                      ELSE lock_holder
    /\ UNCHANGED <<ratings_prioritized, default_training_gpu>>

\* acquire_lock(domain) returning True
acquire_lock(t, d) ==
    /\ lock_available(t, d)
    /\ lock_holder' = [lock_holder EXCEPT ![t] = d]
    /\ UNCHANGED <<active, ratings_prioritized, default_training_gpu>>

\* release_lock(domain) of a lock that is held
release_lock(t, d) ==
    /\ lock_holder[t] = d
    /\ lock_holder' = [lock_holder EXCEPT ![t] = None]
    /\ UNCHANGED <<active, ratings_prioritized, default_training_gpu>>

\* prioritize_ratings() / deprioritize_ratings()
set_ratings_prioritized(t, b) ==
    /\ ratings_prioritized' = [ratings_prioritized EXCEPT ![t] = b]
    /\ UNCHANGED <<active, lock_holder, default_training_gpu>>

\* GpuContentionManager.__init__: the default training gpu's table has TRAINING active
TablesDefaults ==
    /\ active = [t \in Tables |-> [d \in Domains |->
                    t = default_training_gpu /\ d = "TRAINING"]]
    /\ lock_holder = [t \in Tables |-> None]
    /\ ratings_prioritized = [t \in Tables |-> FALSE]

IdleTables == default_training_gpu = "gpu0" /\ TablesDefaults

\* ========================================================================
\* SelfPlayManager: worker lifecycle (_manage_worker, _pause, _unpause, acks, disconnect)
\* ========================================================================
NoGen == -1          \* 'gen' not in conn.aux
LatestGen == 1       \* controller.latest_gen()

\* conn.socket.send_json towards the worker: a send to a worker that closed its end
\* either still succeeds (the message is lost) or raises SocketSendException.
WorkerSendOutcomes == IF walive THEN {"ok"} ELSE {"ok", "SocketSendException"}

Delivered(msg) == IF walive THEN Append(to_worker, msg) ELSE to_worker

\* _handle_weights_request: starts the worker-manager thread
HandleWeightsRequest ==
    /\ wrecv = "recv"
    /\ to_ctrl # <<>> /\ Head(to_ctrl) = "weights-request"
    /\ wpc = "none"
    /\ to_ctrl' = Tail(to_ctrl)
    /\ wpc' = "activate"
    /\ UNCHANGED <<pending_pause_ack, pending_unpause_ack, aux_gen, wrecv, walive, to_worker,
                   opc, shutdown_requested, cleared_by, returned_unmatched, disc_in_pause>>
    /\ UNCHANGED tableVars
    /\ UNCHANGED worker_state
    /\ UNCHANGED notWorkerVars

\* _manage_worker, lines 263-267: table.activate(domain)
ManageWorkerActivate ==
    /\ wpc = "activate"
    /\ activate(WorkerGpu, "SELF_PLAY")
    /\ wpc' = "pause0_flag"
    /\ UNCHANGED <<pending_pause_ack, pending_unpause_ack, aux_gen, wrecv, walive, to_worker,
                   to_ctrl, opc, shutdown_requested, cleared_by, returned_unmatched,
                   disc_in_pause>>
    /\ UNCHANGED worker_state
    /\ UNCHANGED notWorkerVars

\* _pause, line 289: conn.aux['pending_pause_ack'] = True
PauseSetFlag ==
    /\ wpc \in {"pause0_flag", "pause_flag"}
    /\ pending_pause_ack' = TRUE
    /\ cleared_by' = "none"
    /\ wpc' = IF wpc = "pause0_flag" THEN "pause0_send" ELSE "pause_send"
    /\ UNCHANGED <<pending_unpause_ack, aux_gen, wrecv, walive, to_worker, to_ctrl, opc,
                   shutdown_requested, returned_unmatched, disc_in_pause>>
    /\ UNCHANGED tableVars
    /\ UNCHANGED worker_state
    /\ UNCHANGED notWorkerVars

\* mutant of manage_worker_except: every exception is treated as unexpected
manage_worker_except_all_fatal(exc) == "request_shutdown"

\* _manage_worker, lines 278-282: what the except clauses do with an exception
manage_worker_except(exc) ==
    IF exc = "SocketSendException" THEN "warn" ELSE "request_shutdown"

\* _pause, line 290: conn.socket.send_json({'type': 'pause'})
PauseSend ==
    /\ wpc \in {"pause0_send", "pause_send"}
    /\ \E outcome \in WorkerSendOutcomes :
         IF outcome = "ok"
         THEN /\ to_worker' = Delivered("pause")
              /\ wpc' = IF wpc = "pause0_send" THEN "pause0_wait" ELSE "pause_wait"
         ELSE /\ wpc' = "done"
              /\ UNCHANGED to_worker
    /\ shutdown_requested' =
         (shutdown_requested \/ (wpc' = "done" /\ manage_worker_except("SocketSendException") = "request_shutdown"))
    /\ UNCHANGED <<pending_pause_ack, pending_unpause_ack, aux_gen, wrecv, walive, to_ctrl,
                   opc, cleared_by, returned_unmatched, disc_in_pause>>
    /\ UNCHANGED tableVars
    /\ UNCHANGED worker_state
    /\ UNCHANGED notWorkerVars

\* mutant of pause_wait_over: _pause returns without waiting for the ack
pause_wait_over_always == TRUE

\* _pause, lines 293-294: cond.wait_for(lambda: 'pending_pause_ack' not in conn.aux)
pause_wait_over == ~pending_pause_ack

PauseReturn ==
    /\ wpc \in {"pause0_wait", "pause_wait"}
    /\ pause_wait_over
    /\ returned_unmatched' = (returned_unmatched \/ cleared_by = "none")
    /\ wpc' = IF wpc = "pause0_wait" THEN "loop" ELSE "release"
    /\ UNCHANGED <<pending_pause_ack, pending_unpause_ack, aux_gen, wrecv, walive, to_worker,
                   to_ctrl, opc, shutdown_requested, cleared_by, disc_in_pause>>
    /\ UNCHANGED tableVars
    /\ worker_state' = IF cleared_by = "ack" THEN "paused" ELSE worker_state
    /\ UNCHANGED notWorkerVars

\* _manage_worker, line 270: while table.active(domain)
ManageWorkerLoop ==
    /\ wpc = "loop"
    /\ wpc' = IF active[WorkerGpu]["SELF_PLAY"] THEN "acquire" ELSE "done"
    /\ UNCHANGED <<pending_pause_ack, pending_unpause_ack, aux_gen, wrecv, walive, to_worker,
                   to_ctrl, opc, shutdown_requested, cleared_by, returned_unmatched,
                   disc_in_pause>>
    /\ UNCHANGED tableVars
    /\ UNCHANGED worker_state
    /\ UNCHANGED notWorkerVars

\* _manage_worker, lines 271-272: acquire_lock returns True, or False once deactivated
ManageWorkerAcquire ==
    /\ wpc = "acquire"
    /\ \/ /\ acquire_lock(WorkerGpu, "SELF_PLAY")
          /\ wpc' = "refresh"
       \/ /\ ~active[WorkerGpu]["SELF_PLAY"]
          /\ wpc' = "done"
          /\ UNCHANGED tableVars
    /\ UNCHANGED <<pending_pause_ack, pending_unpause_ack, aux_gen, wrecv, walive, to_worker,
                   to_ctrl, opc, shutdown_requested, cleared_by, returned_unmatched,
                   disc_in_pause>>
    /\ UNCHANGED worker_state
    /\ UNCHANGED notWorkerVars

\* _refresh_weights_if_needed, lines 332-336
RefreshWeightsIfNeeded ==
    /\ wpc = "refresh"
    /\ IF aux_gen # LatestGen
       THEN \E outcome \in WorkerSendOutcomes :
              IF outcome = "ok"
              THEN /\ to_worker' = Delivered("weights")
                   /\ aux_gen' = LatestGen
                   /\ wpc' = "unpause_flag"
              ELSE /\ wpc' = "done"
                   /\ UNCHANGED <<to_worker, aux_gen>>
       ELSE /\ wpc' = "unpause_flag"
            /\ UNCHANGED <<to_worker, aux_gen>>
    /\ shutdown_requested' =
         (shutdown_requested \/ (wpc' = "done" /\ manage_worker_except("SocketSendException") = "request_shutdown"))
    /\ UNCHANGED <<pending_pause_ack, pending_unpause_ack, wrecv, walive, to_ctrl, opc,
                   cleared_by, returned_unmatched, disc_in_pause>>
    /\ UNCHANGED tableVars
    /\ UNCHANGED worker_state
    /\ UNCHANGED notWorkerVars

\* _unpause, line 303: conn.aux['pending_unpause_ack'] = True
UnpauseSetFlag ==
    /\ wpc = "unpause_flag"
    /\ pending_unpause_ack' = TRUE
    /\ cleared_by' = "none"
    /\ wpc' = "unpause_send"
    /\ UNCHANGED <<pending_pause_ack, aux_gen, wrecv, walive, to_worker, to_ctrl, opc,
                   shutdown_requested, returned_unmatched, disc_in_pause>>
    /\ UNCHANGED tableVars
    /\ UNCHANGED worker_state
    /\ UNCHANGED notWorkerVars

\* _unpause, line 304: conn.socket.send_json({'type': 'unpause'})
UnpauseSend ==
    /\ wpc = "unpause_send"
    /\ \E outcome \in WorkerSendOutcomes :
         IF outcome = "ok"
         THEN /\ to_worker' = Delivered("unpause")
              /\ wpc' = "unpause_wait"
         ELSE /\ wpc' = "done"
              /\ UNCHANGED to_worker
    /\ shutdown_requested' =
         (shutdown_requested \/ (wpc' = "done" /\ manage_worker_except("SocketSendException") = "request_shutdown"))
    /\ UNCHANGED <<pending_pause_ack, pending_unpause_ack, aux_gen, wrecv, walive, to_ctrl,
                   opc, cleared_by, returned_unmatched, disc_in_pause>>
    /\ UNCHANGED tableVars
    /\ worker_state' = IF wpc' = "unpause_wait" THEN "unpaused" ELSE worker_state
    /\ UNCHANGED notWorkerVars

\* _unpause, lines 307-308: cond.wait_for(lambda: 'pending_unpause_ack' not in conn.aux)
UnpauseReturn ==
    /\ wpc = "unpause_wait"
    /\ ~pending_unpause_ack
    /\ returned_unmatched' = (returned_unmatched \/ cleared_by = "none")
    /\ wpc' = "wait_expiry"
    /\ UNCHANGED <<pending_pause_ack, pending_unpause_ack, aux_gen, wrecv, walive, to_worker,
                   to_ctrl, opc, shutdown_requested, cleared_by, disc_in_pause>>
    /\ UNCHANGED tableVars
    /\ UNCHANGED worker_state
    /\ UNCHANGED notWorkerVars

\* _manage_worker, line 275: wait_for_lock_expiry returns True when the domain is
\* preempted (it no longer is the highest-priority active domain), False when the lease
\* elapsed.
WaitForLockExpiry ==
    /\ wpc = "wait_expiry"
    /\ \E preempted \in BOOLEAN :
         /\ preempted => ~(active[WorkerGpu]["SELF_PLAY"]
                           /\ has_highest_priority(WorkerGpu, "SELF_PLAY"))
         /\ wpc' = IF preempted THEN "pause_flag" ELSE "loop"
    /\ UNCHANGED <<pending_pause_ack, pending_unpause_ack, aux_gen, wrecv, walive, to_worker,
                   to_ctrl, opc, shutdown_requested, cleared_by, returned_unmatched,
                   disc_in_pause>>
    /\ UNCHANGED tableVars
    /\ UNCHANGED worker_state
    /\ UNCHANGED notWorkerVars

\* _manage_worker, line 277: table.release_lock(domain); releasing a lock that is not
\* held is an error, which the `except:` of line 280 turns into request_shutdown(1).
ManageWorkerRelease ==
    /\ wpc = "release"
    /\ IF lock_holder[WorkerGpu] = "SELF_PLAY"
       THEN /\ release_lock(WorkerGpu, "SELF_PLAY")
            /\ wpc' = "loop"
            /\ UNCHANGED shutdown_requested
       ELSE /\ shutdown_requested' =
                 (shutdown_requested \/ manage_worker_except("release of a lock not held") = "request_shutdown")
            /\ wpc' = "done"
            /\ UNCHANGED tableVars
    /\ UNCHANGED <<pending_pause_ack, pending_unpause_ack, aux_gen, wrecv, walive, to_worker,
                   to_ctrl, opc, cleared_by, returned_unmatched, disc_in_pause>>
    /\ UNCHANGED worker_state
    /\ UNCHANGED notWorkerVars

\* _handle_pause_ack, lines 312-322
HandlePauseAck ==
    /\ wrecv = "recv"
    /\ to_ctrl # <<>> /\ Head(to_ctrl) = "pause-ack"
    /\ to_ctrl' = Tail(to_ctrl)
    /\ pending_pause_ack' = FALSE
    /\ cleared_by' = IF pending_pause_ack THEN "ack" ELSE cleared_by
    /\ UNCHANGED <<pending_unpause_ack, aux_gen, wpc, wrecv, walive, to_worker, opc,
                   shutdown_requested, returned_unmatched, disc_in_pause>>
    /\ UNCHANGED tableVars
    /\ UNCHANGED worker_state
    /\ UNCHANGED notWorkerVars

\* _handle_unpause_ack, lines 324-330
HandleUnpauseAck ==
    /\ wrecv = "recv"
    /\ to_ctrl # <<>> /\ Head(to_ctrl) = "unpause-ack"
    /\ to_ctrl' = Tail(to_ctrl)
    /\ pending_unpause_ack' = FALSE
    /\ cleared_by' = IF pending_unpause_ack THEN "ack" ELSE cleared_by
    /\ UNCHANGED <<pending_pause_ack, aux_gen, wpc, wrecv, walive, to_worker, opc,
                   shutdown_requested, returned_unmatched, disc_in_pause>>
    /\ UNCHANGED tableVars
    /\ UNCHANGED worker_state
    /\ UNCHANGED notWorkerVars

\* recv fails on the closed connection; _handle_worker_disconnect, lines 109-113
HandleWorkerDisconnect ==
    /\ wrecv = "recv"
    /\ to_ctrl = <<>> /\ ~walive
    /\ pending_pause_ack' = FALSE
    /\ pending_unpause_ack' = FALSE
    /\ cleared_by' = IF pending_pause_ack \/ pending_unpause_ack THEN "disconnect"
                     ELSE cleared_by
    /\ wrecv' = "deactivate"
    /\ UNCHANGED <<aux_gen, wpc, walive, to_worker, to_ctrl, opc, shutdown_requested,
                   returned_unmatched, disc_in_pause>>
    /\ UNCHANGED tableVars
    /\ UNCHANGED worker_state
    /\ UNCHANGED notWorkerVars

\* _handle_worker_disconnect, lines 115-116: table.deactivate(conn.client_domain)
HandleWorkerDisconnectDeactivate ==
    /\ wrecv = "deactivate"
    /\ deactivate(WorkerGpu, "SELF_PLAY")
    /\ wrecv' = "done"
    /\ UNCHANGED <<pending_pause_ack, pending_unpause_ack, aux_gen, wpc, walive, to_worker,
                   to_ctrl, opc, shutdown_requested, cleared_by, returned_unmatched,
                   disc_in_pause>>
    /\ UNCHANGED worker_state
    /\ UNCHANGED notWorkerVars

\* The worker reads a message and answers pause with pause-ack, unpause with unpause-ack.
WorkerReads ==
    /\ walive
    /\ to_worker # <<>>
    /\ to_worker' = Tail(to_worker)
    /\ to_ctrl' = CASE Head(to_worker) = "pause" -> Append(to_ctrl, "pause-ack")
                    [] Head(to_worker) = "unpause" -> Append(to_ctrl, "unpause-ack")
                    [] OTHER -> to_ctrl
    /\ UNCHANGED <<pending_pause_ack, pending_unpause_ack, aux_gen, wpc, wrecv, walive, opc,
                   shutdown_requested, cleared_by, returned_unmatched, disc_in_pause>>
    /\ UNCHANGED tableVars
    /\ UNCHANGED worker_state
    /\ UNCHANGED notWorkerVars

\* The worker sends an ack that answers nothing: it was sent neither pause nor unpause
\* since its last ack.
WorkerSendsAck(type) ==
    /\ walive
    /\ to_worker = <<>> /\ to_ctrl = <<>>
    /\ ~pending_pause_ack /\ ~pending_unpause_ack
    /\ to_ctrl' = <<type>>
    /\ UNCHANGED <<pending_pause_ack, pending_unpause_ack, aux_gen, wpc, wrecv, walive,
                   to_worker, opc, shutdown_requested, cleared_by, returned_unmatched,
                   disc_in_pause>>
    /\ UNCHANGED tableVars
    /\ UNCHANGED worker_state
    /\ UNCHANGED notWorkerVars

WorkerSendsStrayAck == \E type \in {"pause-ack", "unpause-ack"} : WorkerSendsAck(type)

\* The worker closes its end of the connection.
WorkerCloses ==
    /\ walive
    /\ walive' = FALSE
    /\ to_worker' = <<>>
    /\ disc_in_pause' = (/\ wpc \in {"pause0_wait", "pause_wait"}
                         /\ "pause" \in SeqToSet(to_worker))
    /\ UNCHANGED <<pending_pause_ack, pending_unpause_ack, aux_gen, wpc, wrecv, to_ctrl, opc,
                   shutdown_requested, cleared_by, returned_unmatched>>
    /\ UNCHANGED tableVars
    /\ UNCHANGED worker_state
    /\ UNCHANGED notWorkerVars

\* ---- the other users of the tables: the training thread and a ratings worker ----
OtherDomains == {"TRAINING", "RATINGS"}
TableOf(d) == IF d = "TRAINING" THEN default_training_gpu ELSE WorkerGpu

OtherWantsLock(d) ==
    /\ opc[d] = "idle"
    /\ active[TableOf(d)][d]
    /\ opc' = [opc EXCEPT ![d] = "acquire"]
    /\ UNCHANGED <<pending_pause_ack, pending_unpause_ack, aux_gen, wpc, wrecv, walive,
                   to_worker, to_ctrl, shutdown_requested, cleared_by, returned_unmatched,
                   disc_in_pause>>
    /\ UNCHANGED tableVars
    /\ UNCHANGED worker_state
    /\ UNCHANGED notWorkerVars

OtherAcquires(d) ==
    /\ opc[d] = "acquire"
    /\ acquire_lock(TableOf(d), d)
    /\ opc' = [opc EXCEPT ![d] = "hold"]
    /\ UNCHANGED <<pending_pause_ack, pending_unpause_ack, aux_gen, wpc, wrecv, walive,
                   to_worker, to_ctrl, shutdown_requested, cleared_by, returned_unmatched,
                   disc_in_pause>>
    /\ UNCHANGED worker_state
    /\ UNCHANGED notWorkerVars

OtherReleases(d) ==
    /\ opc[d] = "hold"
    /\ release_lock(TableOf(d), d)
    /\ opc' = [opc EXCEPT ![d] = "idle"]
    /\ UNCHANGED <<pending_pause_ack, pending_unpause_ack, aux_gen, wpc, wrecv, walive,
                   to_worker, to_ctrl, shutdown_requested, cleared_by, returned_unmatched,
                   disc_in_pause>>
    /\ UNCHANGED worker_state
    /\ UNCHANGED notWorkerVars

\* A ratings worker connects to / disconnects from the worker's gpu.
RatingsActivates ==
    /\ ~active[WorkerGpu]["RATINGS"]
    /\ activate(WorkerGpu, "RATINGS")
    /\ UNCHANGED workerVars
    /\ UNCHANGED notWorkerVars

RatingsDeactivates ==
    /\ active[WorkerGpu]["RATINGS"]
    /\ opc["RATINGS"] = "idle"
    /\ deactivate(WorkerGpu, "RATINGS")
    /\ UNCHANGED workerVars
    /\ UNCHANGED notWorkerVars

\* prioritize_ratings() / deprioritize_ratings() on the worker's gpu
RatingsPriorityChanges ==
    /\ active[WorkerGpu]["RATINGS"]
    /\ set_ratings_prioritized(WorkerGpu, ~ratings_prioritized[WorkerGpu])
    /\ UNCHANGED workerVars
    /\ UNCHANGED notWorkerVars

IdleWorker ==
    /\ pending_pause_ack = FALSE
    /\ pending_unpause_ack = FALSE
    /\ aux_gen = NoGen
    /\ wpc = "none"
    /\ wrecv = "recv"
    /\ walive = TRUE
    /\ to_worker = <<>>
    /\ to_ctrl = <<"weights-request">>
    /\ opc = [d \in OtherDomains |-> "idle"]
    /\ shutdown_requested = FALSE
    /\ cleared_by = "none"
    /\ returned_unmatched = FALSE
    /\ disc_in_pause = FALSE
    /\ worker_state = "new"

ManageWorker ==
    \/ ManageWorkerActivate \/ ManageWorkerLoop \/ ManageWorkerAcquire
    \/ RefreshWeightsIfNeeded \/ WaitForLockExpiry \/ ManageWorkerRelease

PauseSteps == PauseSetFlag \/ PauseSend \/ PauseReturn

UnpauseSteps == UnpauseSetFlag \/ UnpauseSend \/ UnpauseReturn

WorkerMsgHandler == HandleWeightsRequest \/ HandlePauseAck \/ HandleUnpauseAck

WorkerDisconnect == HandleWorkerDisconnect \/ HandleWorkerDisconnectDeactivate

OtherLockUsers ==
    \/ \E d \in OtherDomains : OtherWantsLock(d) \/ OtherAcquires(d) \/ OtherReleases(d)
    \/ RatingsActivates \/ RatingsDeactivates \/ RatingsPriorityChanges

\* ========================================================================
\* GpuContentionManager.set_ratings_priority
\* ========================================================================
Callers == {1, 2}              \* threads calling set_ratings_priority
AllTables == <<"gpu0", "gpu1">>   \* the tables in creation order

\* lines 66-70 and 72: the tables with RATINGS active
active_ratings_tables == SelectSeq(AllTables, LAMBDA t : active[t]["RATINGS"])

\* line 86: sort key (table.active(TRAINING), table.active(SELF_PLAY)), False before True
SortKey(t) ==
    (IF active[t]["TRAINING"] THEN 2 ELSE 0) + (IF active[t]["SELF_PLAY"] THEN 1 ELSE 0)

\* lines 86-89: first table of the stably sorted list
first_sorted(tables) ==
    tables[CHOOSE i \in 1..Len(tables) :
             \A j \in 1..Len(tables) :
                \/ SortKey(tables[j]) > SortKey(tables[i])
                \/ SortKey(tables[j]) = SortKey(tables[i]) /\ j >= i]

SrpIdle == [pc |-> "idle", elevate |-> FALSE, ratings_tables |-> <<>>,
            currently_elevated |-> <<>>]

\* lines 66-74: snapshot of the tables, filter on active(RATINGS), return when empty
SetRatingsPriority(c, elevate) ==
    /\ srp[c].pc = "idle"
    /\ srp' = [srp EXCEPT ![c] =
                 IF active_ratings_tables = <<>> THEN SrpIdle
                 ELSE [pc |-> "currently_elevated", elevate |-> elevate,
                       ratings_tables |-> active_ratings_tables,
                       currently_elevated |-> <<>>]]
    /\ UNCHANGED tableVars
    /\ UNCHANGED <<tables_created, training_table>>
    /\ UNCHANGED notGpuVars

\* lines 76-84: currently_elevated, the assert, and the two early returns
CurrentlyElevated(c) ==
    /\ srp[c].pc = "currently_elevated"
    /\ LET elevated == SelectSeq(srp[c].ratings_tables, LAMBDA t : ratings_prioritized[t])
       IN srp' = [srp EXCEPT ![c] =
                    IF Len(elevated) > 1 THEN SrpIdle     \* AssertionError
                    ELSE IF ~srp[c].elevate
                         THEN [@ EXCEPT !.pc = "deprioritize", !.currently_elevated = elevated]
                    ELSE IF Len(elevated) = 1 THEN SrpIdle
                    ELSE [@ EXCEPT !.pc = "prioritize", !.currently_elevated = elevated]]
    /\ UNCHANGED tableVars
    /\ UNCHANGED <<tables_created, training_table>>
    /\ UNCHANGED notGpuVars

\* lines 78-81: deprioritize_ratings() on the elevated tables
Deprioritize(c) ==
    /\ srp[c].pc = "deprioritize"
    /\ ratings_prioritized' =
         [t \in Tables |-> IF t \in SeqToSet(srp[c].currently_elevated) THEN FALSE
                           ELSE ratings_prioritized[t]]
    /\ srp' = [srp EXCEPT ![c] = SrpIdle]
    /\ UNCHANGED <<active, lock_holder, default_training_gpu>>
    /\ UNCHANGED <<tables_created, training_table>>
    /\ UNCHANGED notGpuVars

\* lines 86-91: sort, prioritize_ratings() on the first table
Prioritize(c) ==
    /\ srp[c].pc = "prioritize"
    /\ set_ratings_prioritized(first_sorted(srp[c].ratings_tables), TRUE)
    /\ srp' = [srp EXCEPT ![c] = SrpIdle]
    /\ UNCHANGED <<tables_created, training_table>>
    /\ UNCHANGED notGpuVars

\* A worker of domain d connects to gpu t: table.activate(domain)
WorkerActivates(t, d) ==
    /\ ~active[t][d]
    /\ tables_created' = tables_created \cup {t}
    /\ activate(t, d)
    /\ UNCHANGED <<srp, training_table>>
    /\ UNCHANGED notGpuVars

\* A worker of domain d disconnects from gpu t: table.deactivate(domain)
WorkerDeactivates(t, d) ==
    /\ active[t][d]
    /\ deactivate(t, d)
    /\ UNCHANGED gpuVars
    /\ UNCHANGED notGpuVars

\* lines 45-46: the first table of the host other than the default one, in creation
\* order (the default table is created first, by __init__)
OtherTables == SelectSeq(AllTables, LAMBDA t : t \in tables_created /\ t # default_training_gpu)

NoTable == [set |-> FALSE]

\* get_gpu_lock_table_for_training, lines 43-54 (under self._table_lock); the record holds
\* what was returned together with what held when it was called.
GetGpuLockTableForTraining ==
    /\ training_table' =
         [set |-> TRUE,
          default_highest |-> has_highest_priority(default_training_gpu, "TRAINING"),
          other_highest |-> {t \in SeqToSet(OtherTables) : has_highest_priority(t, "TRAINING")},
          result |->
             IF has_highest_priority(default_training_gpu, "TRAINING") \/ OtherTables = <<>>
             THEN default_training_gpu
             ELSE IF has_highest_priority(OtherTables[1], "TRAINING")
                  THEN OtherTables[1]
                  ELSE "AssertionError"]
    /\ UNCHANGED <<srp, tables_created>>
    /\ UNCHANGED tableVars
    /\ UNCHANGED notGpuVars

IdleGpu ==
    /\ srp = [c \in Callers |-> SrpIdle]
    /\ tables_created = {default_training_gpu}
    /\ training_table = NoTable

SetRatingsPrioritySteps ==
    \E c \in Callers :
       \/ \E elevate \in BOOLEAN : SetRatingsPriority(c, elevate)
       \/ CurrentlyElevated(c) \/ Deprioritize(c) \/ Prioritize(c)

WorkerDomains == {"SELF_PLAY", "RATINGS"}

TableActivity ==
    \E t \in Tables, d \in WorkerDomains : WorkerActivates(t, d) \/ WorkerDeactivates(t, d)

NextGpu == SetRatingsPrioritySteps \/ TableActivity \/ GetGpuLockTableForTraining

\* ========================================================================
\* AlphaZeroManager: run, get_self_play_proc, train_step and the files they write
\* ========================================================================
TrainWorkers == {21, 22}     \* client ids of the self-play worker connections

\* A file name of models/ or checkpoints/: gen-{gen}.{ext}, with a leading '.' when hidden
FileNames == [hidden : BOOLEAN, gen : 1..MaxGen]

FileStates == {"absent", "partial", "complete"}

NoWeights == [gen |-> NoGen, model_file |-> "none"]

\* get_model_filename, lines 402-403
get_model_filename(gen) == [hidden |-> FALSE, gen |-> gen]

\* get_checkpoint_filename, lines 405-406
get_checkpoint_filename(gen) == [hidden |-> FALSE, gen |-> gen]

\* util.py_util.make_hidden_filename: the name with a leading '.', in the same directory
make_hidden_filename(filename) == [filename EXCEPT !.hidden = TRUE]

\* mutant of tmp_model_filename: the model is written under its final name
tmp_model_filename_final(gen) == get_model_filename(gen)

\* line 554: tmp_checkpoint_filename = make_hidden_filename(checkpoint_filename)
tmp_checkpoint_filename(gen) == make_hidden_filename(get_checkpoint_filename(gen))

\* line 555: tmp_model_filename = make_hidden_filename(model_filename)
tmp_model_filename(gen) == make_hidden_filename(get_model_filename(gen))

\* get_ordered_subpaths, lines 412-414: the entries of the directory whose name does not
\* start with '.'
get_ordered_subpaths(dir) == {f \in FileNames : dir[f] # "absent" /\ ~f.hidden}

\* get_latest_info, lines 422-426, and PathInfo, lines 64-73: the generation of the last
\* entry in natural order; 0 stands for the `None` that its callers turn into 0
get_latest_info(dir) ==
    IF get_ordered_subpaths(dir) = {} THEN 0
    ELSE CHOOSE g \in 1..MaxGen :
           /\ \E f \in get_ordered_subpaths(dir) : f.gen = g
           /\ \A f \in get_ordered_subpaths(dir) : f.gen <= g

\* get_latest_model_generation, lines 434-436
get_latest_model_generation == get_latest_info(models_dir)

\* get_latest_player_generation, lines 438-440
get_latest_player_generation ==
    IF players_dir = {} THEN 0
    ELSE CHOOSE g \in players_dir : \A h \in players_dir : h <= g

\* LoopController.latest_gen: the latest generation lookup of the directory organizer,
\* the larger of the latest model and the latest player file
latest_gen ==
    IF get_latest_model_generation >= get_latest_player_generation
    THEN get_latest_model_generation
    ELSE get_latest_player_generation

\* os.rename within one directory
rename(dir, src, dst) ==
    IF src = dst THEN dir ELSE [dir EXCEPT ![dst] = dir[src], ![src] = "absent"]

\* What reading a file of models/ to its end yields
load_model(gen) ==
    IF models_dir[get_model_filename(gen)] = "complete" THEN "ok" ELSE "corrupt"

\* The statements of train_step, in order
TrainStepPositions == {"train_step", "save_checkpoint", "saving_checkpoint", "save_model",
                       "saving_model", "rename_checkpoint", "rename_model"}

\* run, lines 597-598, and get_self_play_proc, lines 464-512: the self-play process is
\* started on the latest model file and the player file of that generation is written
GetSelfPlayProc ==
    /\ tpc = "run"
    /\ players_dir' = players_dir \cup {get_latest_model_generation}
    /\ model_loaded' = IF get_latest_model_generation = 0 THEN model_loaded
                       ELSE load_model(get_latest_model_generation)
    /\ tpc' = IF get_latest_model_generation < MaxGen THEN "train_step" ELSE "stopped"
    /\ UNCHANGED <<models_dir, checkpoints_dir, train_gen, worker_aux_gen, weights_sent>>
    /\ UNCHANGED notTrainVars

\* train_step, lines 527-550: gen is chosen, the minibatch updates run, pre_commit_func
TrainStepTrain ==
    /\ tpc = "train_step"
    /\ train_gen' = get_latest_model_generation + 1
    /\ tpc' = "save_checkpoint"
    /\ UNCHANGED <<models_dir, checkpoints_dir, players_dir, model_loaded, worker_aux_gen,
                   weights_sent>>
    /\ UNCHANGED notTrainVars

\* line 556: net.save_checkpoint(tmp_checkpoint_filename) opens the file and writes
SaveCheckpointOpen ==
    /\ tpc = "save_checkpoint"
    /\ checkpoints_dir' =
         [checkpoints_dir EXCEPT
            ![tmp_checkpoint_filename(train_gen)] = "partial"]
    /\ tpc' = "saving_checkpoint"
    /\ UNCHANGED <<models_dir, players_dir, train_gen, model_loaded, worker_aux_gen,
                   weights_sent>>
    /\ UNCHANGED notTrainVars

\* line 556: the last byte of the checkpoint is written
SaveCheckpointDone ==
    /\ tpc = "saving_checkpoint"
    /\ checkpoints_dir' =
         [checkpoints_dir EXCEPT
            ![tmp_checkpoint_filename(train_gen)] = "complete"]
    /\ tpc' = "save_model"
    /\ UNCHANGED <<models_dir, players_dir, train_gen, model_loaded, worker_aux_gen,
                   weights_sent>>
    /\ UNCHANGED notTrainVars

\* line 557: net.save_model(tmp_model_filename) opens the file and writes
\* (neural_net.py, line 265: mod.save(filename))
SaveModelOpen ==
    /\ tpc = "save_model"
    /\ models_dir' =
         [models_dir EXCEPT ![tmp_model_filename(train_gen)] = "partial"]
    /\ tpc' = "saving_model"
    /\ UNCHANGED <<checkpoints_dir, players_dir, train_gen, model_loaded, worker_aux_gen,
                   weights_sent>>
    /\ UNCHANGED notTrainVars

\* line 557: the last byte of the model is written
SaveModelDone ==
    /\ tpc = "saving_model"
    /\ models_dir' =
         [models_dir EXCEPT ![tmp_model_filename(train_gen)] = "complete"]
    /\ tpc' = "rename_checkpoint"
    /\ UNCHANGED <<checkpoints_dir, players_dir, train_gen, model_loaded, worker_aux_gen,
                   weights_sent>>
    /\ UNCHANGED notTrainVars

\* line 558: os.rename(tmp_checkpoint_filename, checkpoint_filename)
RenameCheckpoint ==
    /\ tpc = "rename_checkpoint"
    /\ checkpoints_dir' = rename(checkpoints_dir,
                                 tmp_checkpoint_filename(train_gen),
                                 get_checkpoint_filename(train_gen))
    /\ tpc' = "rename_model"
    /\ UNCHANGED <<models_dir, players_dir, train_gen, model_loaded, worker_aux_gen,
                   weights_sent>>
    /\ UNCHANGED notTrainVars

\* lines 559-561: os.rename(tmp_model_filename, model_filename); train_step returns to run
RenameModel ==
    /\ tpc = "rename_model"
    /\ models_dir' = rename(models_dir,
                            tmp_model_filename(train_gen),
                            get_model_filename(train_gen))
    /\ tpc' = "run"
    /\ UNCHANGED <<checkpoints_dir, players_dir, train_gen, model_loaded, worker_aux_gen,
                   weights_sent>>
    /\ UNCHANGED notTrainVars

\* Any statement of train_step raises (or the process is killed): run ends where it is,
\* the files stay as they are.
TrainStepFails ==
    /\ tpc \in TrainStepPositions
    /\ tpc' = "failed"
    /\ UNCHANGED <<models_dir, checkpoints_dir, players_dir, train_gen, model_loaded,
                   worker_aux_gen, weights_sent>>
    /\ UNCHANGED notTrainVars

\* The program is started again on the same directory; the workers connect anew.
RunAgain ==
    /\ tpc = "failed"
    /\ tpc' = "run"
    /\ worker_aux_gen' = [w \in TrainWorkers |-> NoGen]
    /\ UNCHANGED <<models_dir, checkpoints_dir, players_dir, train_gen, model_loaded,
                   weights_sent>>
    /\ UNCHANGED notTrainVars

TrainStep ==
    \/ TrainStepTrain \/ SaveCheckpointOpen \/ SaveCheckpointDone \/ SaveModelOpen
    \/ SaveModelDone \/ RenameCheckpoint \/ RenameModel

\* self_play_manager.py, _refresh_weights_if_needed, lines 332-336, in the worker-manager
\* thread of w; broadcast_weights(conn, gen) sends the bytes of the model file of gen.
RefreshWeights(w) ==
    /\ tpc # "failed"
    /\ IF worker_aux_gen[w] # latest_gen
       THEN /\ weights_sent' =
                 [weights_sent EXCEPT
                    ![w] = [gen |-> latest_gen,
                            model_file |-> IF latest_gen = 0 THEN "absent"
                                           ELSE models_dir[get_model_filename(latest_gen)]]]
            /\ worker_aux_gen' = [worker_aux_gen EXCEPT ![w] = latest_gen]
       ELSE UNCHANGED <<weights_sent, worker_aux_gen>>
    /\ UNCHANGED <<models_dir, checkpoints_dir, players_dir, tpc, train_gen, model_loaded>>
    /\ UNCHANGED notTrainVars

IdleTrain ==
    /\ models_dir = [f \in FileNames |-> "absent"]
    /\ checkpoints_dir = [f \in FileNames |-> "absent"]
    /\ players_dir = {}
    /\ tpc = "run"
    /\ train_gen = 0
    /\ model_loaded = "none"
    /\ worker_aux_gen = [w \in TrainWorkers |-> NoGen]
    /\ weights_sent = [w \in TrainWorkers |-> NoWeights]

NextTrain ==
    \/ GetSelfPlayProc \/ TrainStep \/ TrainStepFails \/ RunAgain
    \/ \E w \in TrainWorkers : RefreshWeights(w)

\* ========================================================================
\* SelfPlayManager: setup, signal_retraining_complete, add_server and the preamble
\* ========================================================================
MaxMsgs == 2         \* messages one server sends in one run

ServerMsgTypes == {"ready", "log", "bogus"}

\* mutant of retrain_wait_over: the preamble does not wait
retrain_wait_over_nowait == TRUE

\* line 99: the wait_for predicate, not self._retrain_needed
retrain_wait_over == ~retrain_needed

\* setup, lines 41-42, run by the controller before it accepts clients
RetrainSetup ==
    /\ rtmain = "setup"
    /\ retrain_needed' = requires_retraining
    /\ rtmain' = "run"
    /\ UNCHANGED <<requires_retraining, retrain_signalled, rtpc, rt_sent, rt_handled,
                   rt_held>>
    /\ UNCHANGED notRetrainVars

\* signal_retraining_complete, lines 44-47
SignalRetrainingComplete ==
    /\ rtmain = "run"
    /\ retrain_needed' = FALSE
    /\ retrain_signalled' = TRUE
    /\ UNCHANGED <<requires_retraining, rtmain, rtpc, rt_sent, rt_handled, rt_held>>
    /\ UNCHANGED notRetrainVars

\* add_server, lines 54-65: the handshake-ack is sent and the receive thread is launched
\* with the preamble _wait_until_retrain_not_needed
AddServer(s) ==
    /\ rtmain = "run"
    /\ rtpc[s] = "unconnected"
    /\ rt_sent' = [rt_sent EXCEPT ![s] = Append(@, "handshake-ack")]
    /\ rtpc' = [rtpc EXCEPT ![s] = "preamble"]
    /\ UNCHANGED <<requires_retraining, retrain_needed, retrain_signalled, rtmain,
                   rt_handled, rt_held>>
    /\ UNCHANGED notRetrainVars

\* _wait_until_retrain_not_needed, lines 97-99: the thread enters wait_for and blocks
PreambleWaits(s) ==
    /\ rtpc[s] = "preamble"
    /\ ~retrain_wait_over
    /\ rtpc' = [rtpc EXCEPT ![s] = "preamble_wait"]
    /\ rt_held' = [rt_held EXCEPT ![s] = TRUE]
    /\ UNCHANGED <<requires_retraining, retrain_needed, retrain_signalled, rtmain,
                   rt_sent, rt_handled>>
    /\ UNCHANGED notRetrainVars

\* _wait_until_retrain_not_needed, lines 97-99: wait_for returns, at once or after the
\* notify_all of line 47; the receive loop begins
PreambleReturns(s) ==
    /\ rtpc[s] \in {"preamble", "preamble_wait"}
    /\ retrain_wait_over
    /\ rtpc' = [rtpc EXCEPT ![s] = "recv"]
    /\ UNCHANGED <<requires_retraining, retrain_needed, retrain_signalled, rtmain,
                   rt_sent, rt_handled, rt_held>>
    /\ UNCHANGED notRetrainVars

\* _server_msg_handler, lines 118-136: `ready` is answered by start-gen0 or by start
\* (_handle_ready), a log message is recorded, a message of unknown type is logged;
\* the handler returns False and the receive loop goes on.
ServerMsgHandler(s, type) ==
    /\ rtpc[s] = "recv"
    /\ rt_handled[s] < MaxMsgs
    /\ rt_handled' = [rt_handled EXCEPT ![s] = @ + 1]
    /\ IF type = "ready"
       THEN \E start \in {"start-gen0", "start"} :
              rt_sent' = [rt_sent EXCEPT ![s] = Append(@, start)]
       ELSE UNCHANGED rt_sent
    /\ UNCHANGED <<requires_retraining, retrain_needed, retrain_signalled, rtmain, rtpc,
                   rt_held>>
    /\ UNCHANGED notRetrainVars

RetrainDefaults ==
    /\ retrain_needed = FALSE
    /\ retrain_signalled = FALSE
    /\ rtmain = "setup"
    /\ rtpc = [s \in Servers |-> "unconnected"]
    /\ rt_sent = [s \in Servers |-> <<>>]
    /\ rt_handled = [s \in Servers |-> 0]
    /\ rt_held = [s \in Servers |-> FALSE]

IdleRetrain == RetrainDefaults /\ requires_retraining = FALSE

NextRetrain ==
    \/ RetrainSetup \/ SignalRetrainingComplete
    \/ \E s \in Servers : AddServer(s) \/ PreambleWaits(s) \/ PreambleReturns(s)
    \/ \E s \in Servers, type \in ServerMsgTypes : ServerMsgHandler(s, type)

\* ========================================================================
\* SelfPlayManager: _launch_self_play_restart_loop, one thread per started server
\* ========================================================================
MaxRestarts == 1     \* hours one restart-timer thread is followed

\* lines 243-246: what the except clauses of the restart loop do with an exception
restart_loop_except(exc) ==
    IF exc = "SocketSendException" THEN "warned" ELSE "request_shutdown"

\* conn.socket.send_json towards the server: a send to a server that closed its end
\* either still succeeds or raises SocketSendException.
TimerSendOutcomes == IF tm_alive THEN {"ok"} ELSE {"ok", "SocketSendException"}

\* _launch_self_play, lines 228-230: the thread is started once `start` was sent
LaunchRestartLoop ==
    /\ tmpc = "none"
    /\ tmpc' = "loop"
    /\ UNCHANGED <<tm_alive, tm_active, tm_restarts>>
    /\ UNCHANGED notTimerVars

\* lines 239-240: while conn.active: time.sleep(3600)
RestartLoopTest ==
    /\ tmpc = "loop"
    /\ tm_restarts < MaxRestarts
    /\ tmpc' = IF tm_active THEN "restart" ELSE "ended"
    /\ UNCHANGED <<tm_alive, tm_active, tm_restarts>>
    /\ UNCHANGED notTimerVars

\* line 241 and _restart, lines 248-253: the hour is over and `restart` is sent; an
\* exception of send_json ends the loop in one of the except clauses of lines 242-246
RestartSend ==
    /\ tmpc = "restart"
    /\ \E outcome \in TimerSendOutcomes :
         IF outcome = "ok"
         THEN /\ tm_restarts' = tm_restarts + 1
              /\ tmpc' = "loop"
         ELSE /\ tmpc' = restart_loop_except(outcome)
              /\ UNCHANGED tm_restarts
    /\ UNCHANGED <<tm_alive, tm_active>>
    /\ UNCHANGED notTimerVars

\* The server closes its end of the connection.
TimerServerCloses ==
    /\ tm_alive
    /\ tm_alive' = FALSE
    /\ UNCHANGED <<tmpc, tm_active, tm_restarts>>
    /\ UNCHANGED notTimerVars

\* The server's receive thread fails in recv and the connection is marked inactive.
TimerServerDisconnect ==
    /\ ~tm_alive
    /\ tm_active
    /\ tm_active' = FALSE
    /\ UNCHANGED <<tmpc, tm_alive, tm_restarts>>
    /\ UNCHANGED notTimerVars

RestartLoop ==
    \/ LaunchRestartLoop \/ RestartLoopTest \/ RestartSend
    \/ TimerServerCloses \/ TimerServerDisconnect

IdleTimer ==
    /\ tmpc = "none"
    /\ tm_alive = TRUE
    /\ tm_active = TRUE
    /\ tm_restarts = 0

NextWorker ==
    \/ ManageWorker \/ PauseSteps \/ UnpauseSteps \/ WorkerMsgHandler \/ WorkerDisconnect
    \/ WorkerReads \/ WorkerSendsStrayAck \/ WorkerCloses \/ OtherLockUsers \/ RestartLoop

\* ========================================================================
\* AlphaZeroManager.fork_from: a child run forked from the run of the training thread
\* ========================================================================
MaxForkCalls == 2    \* calls of fork_from on the child run

\* the gen argument of fork_from; NoGen stands for None
ForkGenArgs == {NoGen} \cup (0..MaxGen)

NoRatingsDb == [isfile |-> FALSE, mcts_gens |-> {}]

NoForkTxt == [isfile |-> FALSE, Gen |-> NoGen]

\* os.listdir of models/ or checkpoints/: every entry, hidden ones included
listdir(dir) == {f \in FileNames : dir[f] # "absent"}

\* PathInfo, lines 64-73: the generation is read from the part of the file name before
\* its first '.'; for a name that starts with '.' that part is empty and the generation
\* stays -1
PathInfo_generation(f) == IF f.hidden THEN -1 ELSE f.gen

\* should_skip, lines 205-210, for an entry with the extension asked for
should_skip(generation, gen) ==
    IF gen = NoGen THEN FALSE ELSE generation > gen

\* get_latest_generation, lines 442-443
get_latest_generation ==
    IF get_latest_model_generation <= get_latest_player_generation
    THEN get_latest_model_generation
    ELSE get_latest_player_generation

\* mutant of fork_txt_isfile: fork.txt is never found
fork_txt_isfile_never == FALSE

\* line 188: os.path.isfile(fork_txt_path)
fork_txt_isfile == fork_txt.isfile

\* One of the symlink loops, lines 214-244: every entry is linked, or os.symlink raises
\* FileExistsError at the first entry whose target exists, after the entries that
\* os.listdir gave before it were linked
symlinked(target, entries) ==
    IF entries \cap target = {} THEN {target \cup entries}
    ELSE {target \cup S : S \in SUBSET (entries \ target)}

\* lines 256-272: ratings.db is copied if the parent has one, and with a gen the rows of
\* matches, ratings and x_values with mcts_gen > gen are deleted
forked_ratings_db(gen) ==
    IF ~ratings_db.isfile THEN child_ratings_db
    ELSE IF gen = NoGen THEN ratings_db
    ELSE [isfile |-> TRUE, mcts_gens |-> {g \in ratings_db.mcts_gens : ~(g > gen)}]

\* fork_from(manager, gen), lines 176-280, called on the child run
ForkFrom(gen) ==
    /\ fork_calls < MaxForkCalls
    /\ fork_calls' = fork_calls + 1
    /\ fork_gen' = gen
    /\ IF fork_txt_isfile
       THEN UNCHANGED <<child_models, child_players, child_checkpoints,
                        child_self_play_data, child_ratings_db, n_copied, fork_txt>>
       ELSE LET m  == {f \in listdir(models_dir) :
                          ~should_skip(PathInfo_generation(f), gen)}
                p  == {g \in players_dir : ~should_skip(g, gen)}
                c  == {f \in listdir(checkpoints_dir) :
                          ~should_skip(PathInfo_generation(f), gen)}
                s  == {g \in self_play_data_dir : ~should_skip(g, gen)}
                ok1 == m \cap child_models = {}
                ok2 == ok1 /\ p \cap child_players = {}
                ok3 == ok2 /\ c \cap child_checkpoints = {}
                ok4 == ok3 /\ s \cap child_self_play_data = {}
            IN  /\ child_models' \in symlinked(child_models, m)
                /\ child_players' \in
                      IF ok1 THEN symlinked(child_players, p) ELSE {child_players}
                /\ child_checkpoints' \in
                      IF ok2 THEN symlinked(child_checkpoints, c) ELSE {child_checkpoints}
                /\ child_self_play_data' \in
                      IF ok3 THEN symlinked(child_self_play_data, s)
                      ELSE {child_self_play_data}
                /\ child_ratings_db' = IF ok4 THEN forked_ratings_db(gen)
                                       ELSE child_ratings_db
                /\ n_copied' = n_copied + 1
                                + (IF ok4 /\ ratings_db.isfile THEN 1 ELSE 0)
                /\ fork_txt' =
                      IF ok4 THEN [isfile |-> TRUE,
                                   Gen |-> IF gen # NoGen THEN gen
                                           ELSE get_latest_generation]
                      ELSE fork_txt
    /\ UNCHANGED <<self_play_data_dir, ratings_db>>
    /\ UNCHANGED notForkVars

\* get_self_play_proc, lines 464-478: the running self-play process, started for the
\* generation of the latest players file, writes its games under self-play-data/gen-{g}
SelfPlayWritesGames ==
    /\ players_dir # {}
    /\ get_latest_player_generation \notin self_play_data_dir
    /\ self_play_data_dir' = self_play_data_dir \cup {get_latest_player_generation}
    /\ UNCHANGED <<ratings_db, child_models, child_players, child_checkpoints,
                   child_self_play_data, child_ratings_db, n_copied, fork_txt,
                   fork_calls, fork_gen>>
    /\ UNCHANGED notForkVars

\* The ratings process of the run rates the committed model of generation g and writes
\* its rows, with mcts_gen = g, to ratings.db
RatingsWritten(g) ==
    /\ \E f \in get_ordered_subpaths(models_dir) : f.gen = g
    /\ g \notin ratings_db.mcts_gens
    /\ ratings_db' = [isfile |-> TRUE, mcts_gens |-> ratings_db.mcts_gens \cup {g}]
    /\ UNCHANGED <<self_play_data_dir, child_models, child_players, child_checkpoints,
                   child_self_play_data, child_ratings_db, n_copied, fork_txt,
                   fork_calls, fork_gen>>
    /\ UNCHANGED notForkVars

IdleFork ==
    /\ self_play_data_dir = {}
    /\ ratings_db = NoRatingsDb
    /\ child_models = {}
    /\ child_players = {}
    /\ child_checkpoints = {}
    /\ child_self_play_data = {}
    /\ child_ratings_db = NoRatingsDb
    /\ n_copied = 0
    /\ fork_txt = NoForkTxt
    /\ fork_calls = 0
    /\ fork_gen = NoGen

\* The parent run is followed up to the last call of fork_from on the child run.
NextFork ==
    \/ fork_calls < MaxForkCalls /\ GetSelfPlayProc
    \/ fork_calls < MaxForkCalls /\ TrainStep
    \/ fork_calls < MaxForkCalls /\ SelfPlayWritesGames
    \/ \E g \in 1..MaxGen : fork_calls < MaxForkCalls /\ RatingsWritten(g)
    \/ \E gen \in ForkGenArgs : ForkFrom(gen)

\* ========================================================================
\* DatabaseConnectionManager: the connection pools and close_db_conns
\* ========================================================================
DbThreads == {31, 32}    \* thread ids of two threads that use the databases

\* __init__, lines 11-18: the four pools
DbPools == {"clients", "self_play", "training", "ratings"}

\* _pools, lines 20-21
pools == {"clients", "self_play", "training"}

\* ConnectionPool.get_connection: the calling thread's connection of the pool, opened
\* at its first use
get_connection(pool, thread_id) ==
    [db_conns EXCEPT ![pool][thread_id] = "open"]

\* ConnectionPool.close_connections(thread_id): the thread's connection, if one is open,
\* is closed
close_connections(db, pool, thread_id) ==
    [db EXCEPT ![pool][thread_id] = IF @ = "open" THEN "closed" ELSE @]

\* A thread uses a database: pool.get_connection() / pool.get_cursor()
\* (e.g. client_connection_manager.py line 41, self_play_manager.py lines 352, 401, 444)
DbUse(pool, thread_id) ==
    /\ thread_id \notin db_closed
    /\ db_conns[pool][thread_id] = "none"
    /\ db_conns' = get_connection(pool, thread_id)
    /\ UNCHANGED db_closed
    /\ UNCHANGED notDbVars

\* close_db_conns, lines 23-25, called for a thread that ends
CloseDbConns(thread_id) ==
    /\ thread_id \notin db_closed
    /\ db_conns' = [p \in DbPools |->
                      IF p \in pools
                      THEN close_connections(db_conns, p, thread_id)[p]
                      ELSE db_conns[p]]
    /\ db_closed' = db_closed \cup {thread_id}
    /\ UNCHANGED notDbVars

IdleDb ==
    /\ db_conns = [p \in DbPools |-> [t \in DbThreads |-> "none"]]
    /\ db_closed = {}

NextDb ==
    \/ \E p \in DbPools, t \in DbThreads : DbUse(p, t)
    \/ \E t \in DbThreads : CloseDbConns(t)

\* ========================================================================
\* LoopController: run, main_loop, accept_clients
\* ========================================================================
\* lines 108-115: the client types accept_clients dispatches on
ClientTypes == {"SELF_PLAY_MANAGER", "SELF_PLAY_WORKER", "RATINGS_MANAGER", "RATINGS_WORKER"}

\* the statements of main_loop inside its try block, lines 83-90
MainLoopPositions == {"run_setup", "wait_for_gen0_completion",
                      "train_gen1_model_if_necessary", "wait_until_enough_training_data",
                      "train_step"}

\* lines 70-73: shutdown_code after the test of data.error_signaled()
poll_shutdown_code(code) == IF error_flag THEN 1 ELSE code

\* lines 65-67: shutdown_code = 0 and the main_loop thread is started
RunStart ==
    /\ run_pc = "start"
    /\ shutdown_code' = 0
    /\ main_loop_pc' = "run_setup"
    /\ run_pc' = "poll"
    /\ UNCHANGED <<error_flag, shutdowns, accept_pc, added>>
    /\ UNCHANGED notRunVars

\* lines 69-73: one test of data.error_signaled()
RunPoll ==
    /\ run_pc = "poll"
    /\ shutdown_code' = poll_shutdown_code(shutdown_code)
    /\ run_pc' = IF error_flag THEN "finally" ELSE "sleep"
    /\ UNCHANGED <<error_flag, shutdowns, main_loop_pc, accept_pc, added>>
    /\ UNCHANGED notRunVars

\* line 75: time.sleep(1) returns
RunSleep ==
    /\ run_pc = "sleep"
    /\ run_pc' = "poll"
    /\ UNCHANGED <<shutdown_code, error_flag, shutdowns, main_loop_pc, accept_pc, added>>
    /\ UNCHANGED notRunVars

\* lines 76-77: Ctrl-C while the main thread is inside the try block
KeyboardInterrupt ==
    /\ run_pc \in {"poll", "sleep"}
    /\ run_pc' = "finally"
    /\ UNCHANGED <<shutdown_code, error_flag, shutdowns, main_loop_pc, accept_pc, added>>
    /\ UNCHANGED notRunVars

\* lines 78-79: data.shutdown(shutdown_code); the process ends
RunFinally ==
    /\ run_pc = "finally"
    /\ shutdowns' = Append(shutdowns, shutdown_code)
    /\ run_pc' = "done"
    /\ UNCHANGED <<shutdown_code, error_flag, main_loop_pc, accept_pc, added>>
    /\ UNCHANGED notRunVars

\* lines 83-90 and 58-62: the statements of main_loop in order; _run_setup ends with
\* launch_accept_clients
MainLoopStep ==
    /\ run_pc # "done"
    /\ main_loop_pc \in MainLoopPositions
    /\ main_loop_pc' =
         CASE main_loop_pc = "run_setup" -> "wait_for_gen0_completion"
           [] main_loop_pc = "wait_for_gen0_completion" -> "train_gen1_model_if_necessary"
           [] main_loop_pc = "train_gen1_model_if_necessary" ->
                 "wait_until_enough_training_data"
           [] main_loop_pc = "wait_until_enough_training_data" -> "train_step"
           [] main_loop_pc = "train_step" -> "wait_until_enough_training_data"
    /\ accept_pc' = IF main_loop_pc = "run_setup" THEN "accept" ELSE accept_pc
    /\ UNCHANGED <<run_pc, shutdown_code, error_flag, shutdowns, added>>
    /\ UNCHANGED notRunVars

\* lines 91-93: any statement of main_loop raises; data.signal_error()
MainLoopRaises ==
    /\ run_pc # "done"
    /\ main_loop_pc \in MainLoopPositions
    /\ main_loop_pc' = "raised"
    /\ error_flag' = TRUE
    /\ UNCHANGED <<run_pc, shutdown_code, shutdowns, accept_pc, added>>
    /\ UNCHANGED notRunVars

\* lines 104-117: one client is accepted and handed to its subcontroller; an unknown
\* client type raises (line 117), and so may accept_client or the subcontroller, into
\* lines 118-120: data.signal_error()
AcceptClient(client_type) ==
    /\ run_pc # "done"
    /\ accept_pc = "accept"
    /\ IF client_type \in ClientTypes
       THEN /\ added' = added \cup {client_type}
            /\ UNCHANGED <<accept_pc, error_flag>>
       ELSE /\ accept_pc' = "raised"
            /\ error_flag' = TRUE
            /\ UNCHANGED added
    /\ UNCHANGED <<run_pc, shutdown_code, shutdowns, main_loop_pc>>
    /\ UNCHANGED notRunVars

IdleRun ==
    /\ run_pc = "start"
    /\ shutdown_code = 0
    /\ error_flag = FALSE
    /\ shutdowns = <<>>
    /\ main_loop_pc = "not_started"
    /\ accept_pc = "not_started"
    /\ added = {}

NextRun ==
    \/ RunStart \/ RunPoll \/ RunSleep \/ KeyboardInterrupt \/ RunFinally
    \/ MainLoopStep \/ MainLoopRaises
    \/ \E client_type \in ClientTypes \cup {"unknown"} : AcceptClient(client_type)

\* ========================================================================
\* SelfPlayManager: one receive thread per worker and the threads it starts
\* ========================================================================
\* lines 143-158: the message types _worker_msg_handler dispatches on
WorkerMsgTypes == {"log", "pause-ack", "unpause-ack", "weights-request", "metrics", "game",
                   "done"}

\* _handle_weights_request, lines 513-516: a thread running _manage_worker is started
handle_weights_request(n_threads) == n_threads + 1

\* add_worker, lines 67-76: the receive loop of the connection is launched
AddWorker(w) ==
    /\ wm_conn[w] = "unconnected"
    /\ wm_conn' = [wm_conn EXCEPT ![w] = "connected"]
    /\ UNCHANGED <<wm_inbox, wm_sent, wm_threads>>
    /\ UNCHANGED notMgrVars

\* The worker sends a message.
WorkerSends(w, type) ==
    /\ wm_conn[w] = "connected"
    /\ wm_sent[w] < MaxMsgs
    /\ wm_sent' = [wm_sent EXCEPT ![w] = @ + 1]
    /\ wm_inbox' = [wm_inbox EXCEPT ![w] = Append(@, type)]
    /\ UNCHANGED <<wm_conn, wm_threads>>
    /\ UNCHANGED notMgrVars

\* _worker_msg_handler, lines 136-159, in the receive thread of w: `done` ends the
\* receive loop, so the disconnect handler runs; any other type leaves the loop running
WorkerMsgHandled(w) ==
    /\ wm_conn[w] = "connected"
    /\ wm_inbox[w] # <<>>
    /\ wm_inbox' = [wm_inbox EXCEPT ![w] = Tail(@)]
    /\ wm_threads' = IF Head(wm_inbox[w]) = "weights-request"
                     THEN [wm_threads EXCEPT ![w] = handle_weights_request(@)]
                     ELSE wm_threads
    /\ wm_conn' = IF Head(wm_inbox[w]) = "done"
                  THEN [wm_conn EXCEPT ![w] = "disconnected"]
                  ELSE wm_conn
    /\ UNCHANGED wm_sent
    /\ UNCHANGED notMgrVars

\* The worker closes the connection: the receive loop ends and
\* _handle_worker_disconnect (lines 108-116) deactivates the domain
WorkerGone(w) ==
    /\ wm_conn[w] = "connected"
    /\ wm_conn' = [wm_conn EXCEPT ![w] = "disconnected"]
    /\ wm_inbox' = [wm_inbox EXCEPT ![w] = <<>>]
    /\ UNCHANGED <<wm_sent, wm_threads>>
    /\ UNCHANGED notMgrVars

\* _manage_worker, lines 270-282, returns: the domain is no longer active, or a send
\* failed
ManageWorkerReturns(w) ==
    /\ wm_conn[w] = "disconnected"
    /\ wm_threads[w] > 0
    /\ wm_threads' = [wm_threads EXCEPT ![w] = @ - 1]
    /\ UNCHANGED <<wm_conn, wm_inbox, wm_sent>>
    /\ UNCHANGED notMgrVars

IdleMgr ==
    /\ wm_conn = [w \in Workers |-> "unconnected"]
    /\ wm_inbox = [w \in Workers |-> <<>>]
    /\ wm_sent = [w \in Workers |-> 0]
    /\ wm_threads = [w \in Workers |-> 0]

NextMgr ==
    \/ \E w \in Workers : AddWorker(w) \/ WorkerMsgHandled(w) \/ WorkerGone(w)
                             \/ ManageWorkerReturns(w)
    \/ \E w \in Workers, type \in WorkerMsgTypes : WorkerSends(w, type)

\* ========================================================================
\* RatingsServer: _recv_loop, _handle_msg and _run_match_helper
\* ========================================================================
MaxMatches == 3      \* match-requests the controller sends to one ratings server

Matches == 1..MaxMatches

\* _handle_match_request, lines 126-128: the thread started for the next match-request
next_run_match == Cardinality({k \in Matches : run_match[k] # "none"}) + 1

\* mutant of running_after_match: line 188 is missing
running_after_match_stays == TRUE

\* _run_match_helper, line 188: self._running = False
running_after_match == FALSE

\* _recv_loop, lines 89 and 98-102: _send_ready, or SocketSendException on a closed socket
RecvLoopSendReady ==
    /\ rs_recv_loop = "send_ready"
    /\ IF ctl_open
       THEN /\ rs_sent' = Append(rs_sent, "ready")
            /\ rs_recv_loop' = "recv"
            /\ UNCHANGED rs_shutdown_requested
       ELSE /\ rs_recv_loop' = "done"
            /\ rs_shutdown_requested' = TRUE
            /\ UNCHANGED rs_sent
    /\ UNCHANGED <<rs_running, run_match, rs_inbox, ctl_open, ctl_read, ctl_ready,
                   ctl_requests, ctl_quit>>
    /\ UNCHANGED notRsVars

\* _recv_loop, lines 91-93 with _handle_msg, lines 115-123: match-request starts a
\* run-match thread, quit requests shutdown and ends the loop
HandleMsg ==
    /\ rs_recv_loop = "recv"
    /\ rs_inbox # <<>>
    /\ rs_inbox' = Tail(rs_inbox)
    /\ IF Head(rs_inbox) = "match-request"
       THEN /\ run_match' = [run_match EXCEPT ![next_run_match] = "assert"]
            /\ UNCHANGED <<rs_recv_loop, rs_shutdown_requested>>
       ELSE /\ rs_shutdown_requested' = TRUE
            /\ rs_recv_loop' = "done"
            /\ UNCHANGED run_match
    /\ UNCHANGED <<rs_running, rs_sent, ctl_open, ctl_read, ctl_ready, ctl_requests,
                   ctl_quit>>
    /\ UNCHANGED notRsVars

\* _recv_loop, lines 94-97: recv_json on the socket the controller closed
RecvLoopRecvFails ==
    /\ rs_recv_loop = "recv"
    /\ rs_inbox = <<>> /\ ~ctl_open
    /\ rs_shutdown_requested' = TRUE
    /\ rs_recv_loop' = "done"
    /\ UNCHANGED <<rs_running, run_match, rs_sent, rs_inbox, ctl_open, ctl_read, ctl_ready,
                   ctl_requests, ctl_quit>>
    /\ UNCHANGED notRsVars

\* _run_match_helper, lines 142-143: assert not self._running; self._running = True. A
\* failed assertion is caught by _run_match, lines 137-139.
RunMatchAssert(k) ==
    /\ run_match[k] = "assert"
    /\ IF rs_running
       THEN /\ run_match' = [run_match EXCEPT ![k] = "AssertionError"]
            /\ rs_shutdown_requested' = TRUE
            /\ UNCHANGED rs_running
       ELSE /\ rs_running' = TRUE
            /\ run_match' = [run_match EXCEPT ![k] = "match"]
            /\ UNCHANGED rs_shutdown_requested
    /\ UNCHANGED <<rs_recv_loop, rs_sent, rs_inbox, ctl_open, ctl_read, ctl_ready,
                   ctl_requests, ctl_quit>>
    /\ UNCHANGED notRsVars

\* _run_match_helper, lines 145-188: the match runs to its end and self._running is
\* cleared, or a statement raises and _run_match requests shutdown (lines 137-139)
RunMatchEnds(k) ==
    /\ run_match[k] = "match"
    /\ \E raised \in BOOLEAN :
         IF raised
         THEN /\ run_match' = [run_match EXCEPT ![k] = "raised"]
              /\ rs_shutdown_requested' = TRUE
              /\ UNCHANGED rs_running
         ELSE /\ rs_running' = running_after_match
              /\ run_match' = [run_match EXCEPT ![k] = "send_result"]
              /\ UNCHANGED rs_shutdown_requested
    /\ UNCHANGED <<rs_recv_loop, rs_sent, rs_inbox, ctl_open, ctl_read, ctl_ready,
                   ctl_requests, ctl_quit>>
    /\ UNCHANGED notRsVars

\* _run_match_helper, lines 190-198: match-result is sent, then ready; a send on the
\* closed socket raises into _run_match, lines 137-139
RunMatchSend(k) ==
    /\ run_match[k] \in {"send_result", "send_ready"}
    /\ IF ctl_open
       THEN /\ rs_sent' = Append(rs_sent, IF run_match[k] = "send_result" THEN "match-result"
                                          ELSE "ready")
            /\ run_match' = [run_match EXCEPT ![k] = IF @ = "send_result" THEN "send_ready"
                                                     ELSE "done"]
            /\ UNCHANGED rs_shutdown_requested
       ELSE /\ run_match' = [run_match EXCEPT ![k] = "raised"]
            /\ rs_shutdown_requested' = TRUE
            /\ UNCHANGED rs_sent
    /\ UNCHANGED <<rs_running, rs_recv_loop, rs_inbox, ctl_open, ctl_read, ctl_ready,
                   ctl_requests, ctl_quit>>
    /\ UNCHANGED notRsVars

\* The controller reads the next message of the server; a `ready` may be answered.
ControllerReads ==
    /\ ctl_open
    /\ ctl_read < Len(rs_sent)
    /\ ctl_read' = ctl_read + 1
    /\ ctl_ready' = IF rs_sent[ctl_read + 1] = "ready" THEN ctl_ready + 1 ELSE ctl_ready
    /\ UNCHANGED <<rs_running, rs_recv_loop, run_match, rs_sent, rs_inbox,
                   rs_shutdown_requested, ctl_open, ctl_requests, ctl_quit>>
    /\ UNCHANGED notRsVars

\* The controller answers a `ready` with a match-request: at most one per `ready`.
ControllerSendsMatchRequest ==
    /\ ctl_open /\ ~ctl_quit
    /\ ctl_ready > 0
    /\ ctl_requests < MaxMatches
    /\ ctl_ready' = ctl_ready - 1
    /\ ctl_requests' = ctl_requests + 1
    /\ rs_inbox' = Append(rs_inbox, "match-request")
    /\ UNCHANGED <<rs_running, rs_recv_loop, run_match, rs_sent, rs_shutdown_requested,
                   ctl_open, ctl_read, ctl_quit>>
    /\ UNCHANGED notRsVars

\* The controller sends `quit`.
ControllerSendsQuit ==
    /\ ctl_open /\ ~ctl_quit
    /\ ctl_quit' = TRUE
    /\ rs_inbox' = Append(rs_inbox, "quit")
    /\ UNCHANGED <<rs_running, rs_recv_loop, run_match, rs_sent, rs_shutdown_requested,
                   ctl_open, ctl_read, ctl_ready, ctl_requests>>
    /\ UNCHANGED notRsVars

\* The controller shuts down and its end of the socket closes.
ControllerCloses ==
    /\ ctl_open
    /\ ctl_open' = FALSE
    /\ UNCHANGED <<rs_running, rs_recv_loop, run_match, rs_sent, rs_inbox,
                   rs_shutdown_requested, ctl_read, ctl_ready, ctl_requests, ctl_quit>>
    /\ UNCHANGED notRsVars

\* __init__, line 53, and _main_loop, line 70: the receive loop has just been started
IdleRs ==
    /\ rs_running = FALSE
    /\ rs_recv_loop = "send_ready"
    /\ run_match = [k \in Matches |-> "none"]
    /\ rs_sent = <<>>
    /\ rs_inbox = <<>>
    /\ rs_shutdown_requested = FALSE
    /\ ctl_open = TRUE
    /\ ctl_read = 0
    /\ ctl_ready = 0
    /\ ctl_requests = 0
    /\ ctl_quit = FALSE

RecvLoop == RecvLoopSendReady \/ HandleMsg \/ RecvLoopRecvFails

RunMatch == \E k \in Matches : RunMatchAssert(k) \/ RunMatchEnds(k) \/ RunMatchSend(k)

Controller ==
    \/ ControllerReads \/ ControllerSendsMatchRequest \/ ControllerSendsQuit
    \/ ControllerCloses

NextRs == RecvLoop \/ RunMatch \/ Controller

IdleConn ==
    /\ connections = <<>>
    /\ manager_id_to_worker_id_map = <<>>
    /\ clients = <<>>
    /\ apc = "accept"
    /\ hs = [h |-> None]
    /\ conns = <<>>
    /\ client_id = NoClientId
    /\ reply = NoReply
    /\ accepted = {}
    /\ n_handshakes = 0

InitConn ==
    IdleConn /\ IdleGames /\ IdleGen0 /\ IdleTables /\ IdleWorker /\ IdleGpu /\ IdleTrain /\ IdleRetrain /\ IdleTimer /\ IdleFork /\ IdleDb /\ IdleRun /\ IdleMgr /\ IdleRs

NextConn == RecvHandshake \/ RecvOtherMessage \/ Resolve \/ Register \/ Disconnect

SpecConn == InitConn /\ [][NextConn]_vars

InitGames ==
    /\ max_positions_per_generation \in {NoLimit, MaxPositions}
    /\ GamesDefaults
    /\ IdleConn
    /\ IdleGen0
    /\ IdleTables
    /\ IdleWorker
    /\ IdleGpu
    /\ IdleTrain
    /\ IdleRetrain
    /\ IdleTimer
    /\ IdleFork
    /\ IdleDb
    /\ IdleRun
    /\ IdleMgr
    /\ IdleRs

SpecGames == InitGames /\ [][NextGames]_vars

InitGen0 ==
    /\ samples_per_window \in {0, MaxSamples}
    /\ NewRun \/ Restart
    /\ Gen0Defaults
    /\ IdleConn
    /\ IdleGames
    /\ IdleTables
    /\ IdleWorker
    /\ IdleGpu
    /\ IdleTrain
    /\ IdleRetrain
    /\ IdleTimer
    /\ IdleFork
    /\ IdleDb
    /\ IdleRun
    /\ IdleMgr
    /\ IdleRs

SpecGen0 == InitGen0 /\ [][NextGen0]_vars

\* The controller's own threads keep running: the main thread, and each server's receive
\* thread once it has a message or a wake-up to act on.
FairGen0 ==
    /\ WF_vars(WaitForGen0Completion)
    /\ \A s \in Servers :
          WF_vars(LaunchGen0IfNecessary(s) \/ LaunchGen0SelfPlay(s) \/ HandleGen0Complete(s)
                  \/ HandleServerDisconnect(s) \/ LaunchSelfPlay(s) \/ SendStart(s))

SpecGen0Fair == SpecGen0 /\ FairGen0

SpecMainLoop == InitGen0 /\ [][NextMainLoop]_vars

InitWorker ==
    /\ default_training_gpu \in Tables
    /\ TablesDefaults
    /\ IdleWorker
    /\ IdleGpu
    /\ IdleConn
    /\ IdleGames
    /\ IdleGen0
    /\ IdleGpu
    /\ IdleTrain
    /\ IdleRetrain
    /\ IdleTimer
    /\ IdleFork
    /\ IdleDb
    /\ IdleRun
    /\ IdleMgr
    /\ IdleRs

SpecWorker == InitWorker /\ [][NextWorker]_vars

InitGpu ==
    /\ default_training_gpu \in Tables
    /\ TablesDefaults
    /\ IdleGpu
    /\ IdleWorker
    /\ IdleConn
    /\ IdleGames
    /\ IdleGen0
    /\ IdleTrain
    /\ IdleRetrain
    /\ IdleTimer
    /\ IdleFork
    /\ IdleDb
    /\ IdleRun
    /\ IdleMgr
    /\ IdleRs

SpecGpu == InitGpu /\ [][NextGpu]_vars

InitTrain ==
    /\ IdleTrain
    /\ IdleConn
    /\ IdleGames
    /\ IdleGen0
    /\ IdleTables
    /\ IdleWorker
    /\ IdleGpu
    /\ IdleRetrain
    /\ IdleTimer
    /\ IdleFork
    /\ IdleDb
    /\ IdleRun
    /\ IdleMgr
    /\ IdleRs

SpecTrain == InitTrain /\ [][NextTrain]_vars

\* ------------------------------------------------------------------------
\* C22: a client whose first message is not a handshake costs only its own connection:
\* the accept thread goes on accepting and request_shutdown is not called.
C22_Original == apc # "request_shutdown"

\* ------------------------------------------------------------------------
\* C13: in every state of train_step, the states after a failure part-way included, a
\* file under a final name models/gen-{g} is completely written, and whoever loads the
\* latest model file loads it whole.
C13_ModelFileAtomic ==
    /\ \A g \in 1..MaxGen : models_dir[get_model_filename(g)] \in {"absent", "complete"}
    /\ model_loaded # "corrupt"

\* train_step failed while the model of generation 2 was being written, with the model
\* of generation 1 in place and loaded.
C13_Witness ==
    /\ tpc = "failed"
    /\ train_gen = 2
    /\ models_dir[tmp_model_filename(2)] = "partial"
    /\ models_dir[get_model_filename(1)] = "complete"
    /\ model_loaded = "ok"

\* ------------------------------------------------------------------------
\* C14: weights of generation g are sent to a worker only when the model file of g is
\* in place under its final name.
C14_Original ==
    \A w \in TrainWorkers :
       weights_sent[w] # NoWeights => weights_sent[w].model_file = "complete"

InitRetrain ==
    /\ requires_retraining \in BOOLEAN
    /\ RetrainDefaults
    /\ IdleConn
    /\ IdleGames
    /\ IdleGen0
    /\ IdleTables
    /\ IdleWorker
    /\ IdleGpu
    /\ IdleTrain
    /\ IdleTimer
    /\ IdleFork
    /\ IdleDb
    /\ IdleRun
    /\ IdleMgr
    /\ IdleRs

SpecRetrain == InitRetrain /\ [][NextRetrain]_vars

\* Every receive thread that can run does run.
FairRetrain == \A s \in Servers : WF_vars(PreambleReturns(s))

SpecRetrainFair == SpecRetrain /\ FairRetrain

\* ------------------------------------------------------------------------
\* C21: while the run requires retraining and signal_retraining_complete was not called,
\* no message of a connected server is handled and it is sent nothing but the
\* handshake-ack; after signal_retraining_complete no preamble waits any more, and every
\* server in its preamble, held or newly connected, reaches its receive loop.
C21_RetrainPreamble ==
    /\ [](\A s \in Servers :
            (rtmain = "run" /\ requires_retraining /\ ~retrain_signalled) =>
               /\ rt_handled[s] = 0
               /\ SeqToSet(rt_sent[s]) \subseteq {"handshake-ack"}
               /\ rtpc[s] # "recv")
    /\ [](retrain_signalled => retrain_wait_over)
    /\ \A s \in Servers :
          (retrain_signalled /\ rtpc[s] \in {"preamble", "preamble_wait"}) ~> (rtpc[s] = "recv")

\* A server was held in the preamble wait, was released by signal_retraining_complete and
\* had its `ready` answered, and a server that connected afterwards was not held.
C21_Witness ==
    /\ requires_retraining /\ retrain_signalled
    /\ \E s, t \in Servers :
          /\ rt_held[s] /\ rtpc[s] = "recv" /\ Len(rt_sent[s]) > 1
          /\ ~rt_held[t] /\ rtpc[t] = "recv"

\* ------------------------------------------------------------------------
\* C24: the receive thread handling a pause-ack (unpause-ack) while no pause (unpause) is
\* pending calls request_shutdown.
C24_Original ==
    [][(/\ wrecv = "recv" /\ to_ctrl # <<>> /\ to_ctrl' = Tail(to_ctrl)
        /\ \/ Head(to_ctrl) = "pause-ack" /\ ~pending_pause_ack
           \/ Head(to_ctrl) = "unpause-ack" /\ ~pending_unpause_ack)
       => shutdown_requested']_vars

\* ------------------------------------------------------------------------
\* C23: a SocketSendException in the worker-manager thread or in the restart-timer
\* thread ends that thread and nothing more: the step in which send_json raises does not
\* call request_shutdown.
C23_SendFailureNotFatal ==
    /\ [][(wpc \in {"pause0_send", "pause_send", "refresh", "unpause_send"} /\ wpc' = "done")
            => shutdown_requested' = shutdown_requested]_vars
    /\ [](tmpc # "request_shutdown")

\* send_json raised in _unpause and in _restart: both threads are over, the unpause flag
\* is still pending, and no shutdown was requested.
C23_Witness ==
    /\ wpc = "done" /\ pending_unpause_ack
    /\ tmpc = "warned"
    /\ ~shutdown_requested

InitGen0Msg ==
    /\ samples_per_window = MaxSamples
    /\ NewRun
    /\ Gen0Defaults
    /\ IdleConn
    /\ IdleGames
    /\ IdleTables
    /\ IdleWorker
    /\ IdleGpu
    /\ IdleTrain
    /\ IdleRetrain
    /\ IdleTimer
    /\ IdleFork
    /\ IdleDb
    /\ IdleRun
    /\ IdleMgr
    /\ IdleRs

SpecGen0Msg == InitGen0Msg /\ [][NextGen0Msg]_vars

\* ------------------------------------------------------------------------
InitFork ==
    /\ IdleFork
    /\ IdleTrain
    /\ IdleConn
    /\ IdleGames
    /\ IdleGen0
    /\ IdleTables
    /\ IdleWorker
    /\ IdleGpu
    /\ IdleRetrain
    /\ IdleTimer
    /\ IdleDb
    /\ IdleRun
    /\ IdleMgr
    /\ IdleRs

SpecFork == InitFork /\ [][NextFork]_vars

\* ------------------------------------------------------------------------
\* C28: a call of fork_from on a child run that has fork.txt creates no symlink, copies
\* no file, deletes no ratings row and leaves fork.txt as it is.
C28_ForkIdempotent ==
    [][(fork_calls' = fork_calls + 1 /\ fork_txt.isfile) =>
          UNCHANGED <<child_models, child_players, child_checkpoints,
                      child_self_play_data, child_ratings_db, n_copied, fork_txt>>]_vars

\* a second call was made, with a gen above the recorded one, on a child forked below a
\* model and a ratings row that the parent holds
C28_Witness ==
    /\ fork_calls = 2
    /\ fork_txt.isfile
    /\ fork_gen > fork_txt.Gen
    /\ \E f \in listdir(models_dir) : f \notin child_models /\ f.gen <= fork_gen
    /\ child_models # {}
    /\ \E g \in ratings_db.mcts_gens : g \notin child_ratings_db.mcts_gens

\* ------------------------------------------------------------------------
\* C29 as stated: the first fork_from(parent, gen = G) on the empty child leaves in each
\* of models, checkpoints, players and self-play-data a symlink for exactly the parent's
\* entries of generation <= G, fork.txt with Gen G, and in the child's ratings.db the
\* parent's rows with mcts_gen <= G and no row with mcts_gen > G.
C29_Original ==
    [][(fork_calls = 0 /\ fork_calls' = 1 /\ fork_gen' # NoGen) =>
          /\ child_models' = {f \in listdir(models_dir) : f.gen <= fork_gen'}
          /\ child_checkpoints' = {f \in listdir(checkpoints_dir) : f.gen <= fork_gen'}
          /\ child_players' = {g \in players_dir : g <= fork_gen'}
          /\ child_self_play_data' = {g \in self_play_data_dir : g <= fork_gen'}
          /\ fork_txt' = [isfile |-> TRUE, Gen |-> fork_gen']
          /\ \A g \in child_ratings_db'.mcts_gens : g <= fork_gen'
          /\ \A g \in ratings_db.mcts_gens :
                g <= fork_gen' => g \in child_ratings_db'.mcts_gens]_vars

\* ------------------------------------------------------------------------
\* C30 as stated: the generation get_latest_generation returns to fork_from (written to
\* fork.txt when no gen is given) is the larger of the latest model generation and the
\* latest player generation.
C30_Original ==
    [][(fork_calls = 0 /\ fork_calls' = 1 /\ fork_gen' = NoGen) =>
          fork_txt'.Gen = IF get_latest_model_generation >= get_latest_player_generation
                          THEN get_latest_model_generation
                          ELSE get_latest_player_generation]_vars

\* ------------------------------------------------------------------------
InitDb ==
    /\ IdleDb
    /\ IdleFork
    /\ IdleTrain
    /\ IdleConn
    /\ IdleGames
    /\ IdleGen0
    /\ IdleTables
    /\ IdleWorker
    /\ IdleGpu
    /\ IdleRetrain
    /\ IdleTimer
    /\ IdleRun
    /\ IdleMgr
    /\ IdleRs

SpecDb == InitDb /\ [][NextDb]_vars

\* ------------------------------------------------------------------------
\* C31 as stated: once close_db_conns(thread_id) has returned, none of the four pools
\* holds an open connection of that thread.
C31_Original ==
    \A t \in db_closed : \A p \in DbPools : db_conns[p][t] # "open"

\* ------------------------------------------------------------------------
InitRun ==
    /\ IdleRun
    /\ IdleDb
    /\ IdleFork
    /\ IdleTrain
    /\ IdleConn
    /\ IdleGames
    /\ IdleGen0
    /\ IdleTables
    /\ IdleWorker
    /\ IdleGpu
    /\ IdleRetrain
    /\ IdleTimer
    /\ IdleMgr
    /\ IdleRs

SpecRun == InitRun /\ [][NextRun]_vars

\* ------------------------------------------------------------------------
\* C32 as stated: run calls shutdown exactly once, and the code it leaves its loop with
\* is 1 if and only if a child thread has signalled an error (0 on a keyboard interrupt
\* with no error signalled).
C32_Original ==
    /\ [](Len(shutdowns) <= 1)
    /\ [](run_pc = "done" => shutdowns = <<shutdown_code>>)
    /\ [][(run_pc # "finally" /\ run_pc' = "finally") =>
             (shutdown_code' = 1 <=> error_flag)]_vars

\* ------------------------------------------------------------------------
\* C33 as stated: when wait_for_lock_expiry returns, for whichever reason, the next step of
\* the worker-manager thread is the pause, and the thread comes to its next acquire_lock
\* only with the lock released.
C33_Original ==
    /\ [][(wpc = "wait_expiry" /\ wpc' # "wait_expiry") => wpc' = "pause_flag"]_vars
    /\ [][(wpc # "acquire" /\ wpc' = "acquire") =>
             lock_holder[WorkerGpu] # "SELF_PLAY"]_vars

\* ------------------------------------------------------------------------
InitMgr ==
    /\ IdleMgr
    /\ IdleRun
    /\ IdleDb
    /\ IdleFork
    /\ IdleTrain
    /\ IdleConn
    /\ IdleGames
    /\ IdleGen0
    /\ IdleTables
    /\ IdleWorker
    /\ IdleGpu
    /\ IdleRetrain
    /\ IdleTimer
    /\ IdleRs

SpecMgr == InitMgr /\ [][NextMgr]_vars

\* ------------------------------------------------------------------------
\* C37 as stated: whatever messages a worker sends, its connection never has more than
\* one live worker-manager thread.
C37_Original == \A w \in Workers : wm_threads[w] <= 1

C36_Original ==
    (wrecv = "done" /\ wpc = "done") =>
        /\ ~active[WorkerGpu]["SELF_PLAY"]
        /\ lock_holder[WorkerGpu] # "SELF_PLAY"

\* C35: once all flushes have completed (pending list empty, no flush in progress),
\* every game accepted by the budget check, that is every game file written, is a row of
\* games and is counted once in the aggregates of its gen; no commit inserts a row that
\* games already holds; and every row of games has its game file.
C35_Original ==
    /\ []((/\ pending_game_data = <<>>
           /\ db_lock = NoThread
           /\ \A w \in Workers : gpc[w] = "recv")
          => /\ game_files \subseteq games
             /\ \A g \in {r.gen : r \in game_files} :
                    /\ g \in DOMAIN self_play_metadata
                    /\ self_play_metadata[g].games =
                          Cardinality({r \in game_files : r.gen = g}))
    /\ [][\A w \in Workers :
             (gpc[w] = "commit" /\ gpc'[w] = "notify") => tx[w].rows \cap games = {}]_vars
    /\ [](games \subseteq game_files)

\* C38: no training step starts before gen-0 self-play has been declared complete. A
\* model is trained only by train_gen1_model_if_necessary and train_step; the main thread
\* goes through wait_for_gen0_completion, train_gen1_model_if_necessary and then the
\* loop of wait_until_enough_training_data and train_step, in this order; and it leaves
\* the wait of wait_for_gen0_completion only in a state where gen-0 is declared complete.
MainLoopOrder ==
    {<<"check_gen0", "set_gen0">>, <<"set_gen0", "assign_gen0">>, <<"set_gen0", "wait_gen0">>,
     <<"assign_gen0", "wait_gen0">>, <<"wait_gen0", "train_gen1">>,
     <<"train_gen1", "notify_of_new_model">>, <<"notify_of_new_model", "train_loop">>,
     <<"train_loop", "train_step">>, <<"train_step", "train_loop">>}

C38_TrainingAfterGen0 ==
    /\ [][latest_model_generation' # latest_model_generation =>
             mainpc \in {"train_gen1", "train_step"}]_vars
    /\ [][mainpc' # mainpc => <<mainpc, mainpc'>> \in MainLoopOrder]_vars
    /\ [][(mainpc = "wait_gen0" /\ mainpc' # mainpc) => gen0_complete]_vars

\* In a new run a server ran gen-0, the gen-1 model was trained after that, and the loop
\* has trained the model of generation MaxGen.
C38_Witness ==
    /\ mainpc = "train_loop"
    /\ latest_model_generation = MaxGen
    /\ samples_per_window = MaxSamples
    /\ last_game.gen = 0
    /\ \E s \in Servers : sent[s] # <<>> /\ Head(sent[s]) = "start-gen0"

InitRs ==
    /\ IdleRs
    /\ IdleMgr
    /\ IdleRun
    /\ IdleDb
    /\ IdleFork
    /\ IdleTrain
    /\ IdleConn
    /\ IdleGames
    /\ IdleGen0
    /\ IdleTables
    /\ IdleWorker
    /\ IdleGpu
    /\ IdleRetrain
    /\ IdleTimer

SpecRs == InitRs /\ [][NextRs]_vars

\* ------------------------------------------------------------------------
\* C39: with a controller that sends at most one match-request per `ready`, at most one
\* run-match thread is between setting and clearing self._running, no thread fails the
\* assertion `not self._running`, and the messages of the server are a `ready` followed
\* by match-result, ready, match-result, ready, ...: every `ready` but the first follows
\* a match-result and every match-result follows a `ready`.
C39_OneMatchAtATime ==
    /\ Cardinality({k \in Matches : run_match[k] = "match"}) <= 1
    /\ \A k \in Matches : run_match[k] # "AssertionError"
    /\ \A i \in 1..Len(rs_sent) :
          rs_sent[i] = IF i % 2 = 1 THEN "ready" ELSE "match-result"

\* Two matches were run one after the other and the server is ready for a third.
C39_Witness ==
    /\ rs_sent = <<"ready", "match-result", "ready", "match-result", "ready">>
    /\ run_match[1] = "done" /\ run_match[2] = "done"
    /\ ~rs_running

\* ------------------------------------------------------------------------
\* C27: a call of set_ratings_priority(True) that elevates a table does so only while no
\* table with RATINGS active is elevated, and the table it elevates has neither TRAINING
\* nor SELF_PLAY active whenever one of the ratings tables the call collected has neither.
C27_Original ==
    [][\A c \in Callers : \A t \in Tables :
         (srp[c].pc = "prioritize" /\ srp'[c].pc = "idle"
            /\ ~ratings_prioritized[t] /\ ratings_prioritized'[t]) =>
            /\ \A u \in Tables : ~(active[u]["RATINGS"] /\ ratings_prioritized[u])
            /\ (\E u \in SeqToSet(srp[c].ratings_tables) :
                     ~active[u]["TRAINING"] /\ ~active[u]["SELF_PLAY"])
                 => (~active[t]["TRAINING"] /\ ~active[t]["SELF_PLAY"])]_vars

\* ------------------------------------------------------------------------
\* C26: a _check_row_budget call for a game of gen 0, or with no
\* max_positions_per_generation configured, returns True and leaves the per-gen budget
\* counters as they were, whatever was submitted before.
C26_NoBudgetPasses ==
    [][(/\ n_games' = n_games + 1
        /\ use_data'.gen = 0 \/ max_positions_per_generation = NoLimit)
       => /\ use_data'.value = TRUE
          /\ budget_dict' = budget_dict]_vars

\* With a limit configured, a gen-0 game passed although the rows of the gen-0 games
\* before it had reached the limit.
C26_Witness ==
    /\ max_positions_per_generation = MaxPositions
    /\ use_data.set /\ use_data.gen = 0 /\ use_data.value
    /\ SumRows({g \in game_files : g.gen = 0 /\ g.id < n_games}) >= MaxPositions
    /\ budget_dict = [g \in Gens |-> 0]

\* ------------------------------------------------------------------------
\* C25: the handling of a gen0-complete message from a server that is not the gen-0
\* owner, or that arrives while gen-0 positions are still missing, escalates to
\* request_shutdown and leaves the gen-0 owner and the completion flag as they were.
C25_Gen0CompleteViolation ==
    [][\A s \in Servers :
         (/\ rpc[s] = "handle_gen0_complete" /\ rpc'[s] # rpc[s]
          /\ s # gen0_owner \/ num_additional_gen0_positions_needed > 0)
         => /\ rpc'[s] = "request_shutdown"
            /\ gen0_owner' = gen0_owner
            /\ gen0_complete' = gen0_complete]_vars

\* Both cases happened: the owner reported completion with rows missing, and another
\* server reported completion while the owner held the ownership.
C25_Witness ==
    \E s, t \in Servers :
       /\ s # t
       /\ rpc[s] = "request_shutdown" /\ gen0_owner = s
       /\ rpc[t] = "request_shutdown"
       /\ num_additional_gen0_positions_needed > 0
       /\ ~gen0_complete

\* ------------------------------------------------------------------------
\* C1: on every gpu table a domain comes to hold the lock only from a state in which
\* the lock is free and the domain is active and outranks every other active domain;
\* the holder changes hands only through a free lock.
C1_LockExclusive ==
    [][\A t \in Tables, d \in Domains :
          (lock_holder'[t] = d /\ lock_holder[t] # d) =>
             /\ lock_holder[t] = None
             /\ active[t][d]
             /\ has_highest_priority(t, d)]_vars

\* The self-play worker holds the lock of its gpu while a ratings thread waits for it.
C1_Witness ==
    /\ lock_holder[WorkerGpu] = "SELF_PLAY"
    /\ wpc = "wait_expiry"
    /\ active[WorkerGpu]["RATINGS"]
    /\ opc["RATINGS"] = "acquire"

\* ------------------------------------------------------------------------
\* C3 as stated: at most one gpu table has ratings prioritized.
C3_Original == Cardinality({t \in Tables : ratings_prioritized[t]}) <= 1

\* ------------------------------------------------------------------------
\* The manager thread waits on a pending flag that nothing will clear any more: the
\* receive thread has finished clearing flags in the disconnect handler.
ManagerWaitsForever ==
    /\ wrecv \in {"deactivate", "done"}
    /\ \/ wpc \in {"pause0_wait", "pause_wait"} /\ pending_pause_ack
       \/ wpc = "unpause_wait" /\ pending_unpause_ack

\* C5 as stated: _pause/_unpause returns only after the matching ack or the disconnect
\* handler cleared its flag, and it is never left waiting once the disconnect handler
\* has run.
C5_Original == ~returned_unmatched /\ ~ManagerWaitsForever

\* ------------------------------------------------------------------------
\* C6 as stated: after a disconnect between `pause` and its ack, request_shutdown is
\* never called and the manager thread is not left waiting; once the disconnect handler
\* is through, the worker's domain is deactivated.
C6_Original ==
    disc_in_pause =>
       /\ ~shutdown_requested
       /\ ~ManagerWaitsForever
       /\ (wrecv = "done" /\ wpc = "done" => ~active[WorkerGpu]["SELF_PLAY"])

C10_Original ==
    (reply.kind # "none" /\ reply.prior # {}) =>
        /\ reply.kind = "ack"
        /\ reply.client_id \in reply.prior
        /\ ~reply.inserted

\* C10 amended: the same, for a handshake that carries a manager_id and arrives while no
\* registered connection has its (role, gpu_id).
C10_ReconnectSameId ==
    (reply.kind # "none" /\ reply.prior # {} /\ reply.hs.manager_id # None /\ ~reply.clash) =>
        /\ reply.kind = "ack"
        /\ reply.client_id \in reply.prior
        /\ ~reply.inserted

\* A reconnect with a manager_id was accepted under the client id of the removed connection.
C10_Witness ==
    /\ reply.kind = "ack"
    /\ reply.prior # {}
    /\ reply.hs.manager_id # None
    /\ ~reply.inserted
    /\ Len(clients) >= 1

\* ------------------------------------------------------------------------
\* C11: every accepted handshake has the (ip, role, cuda_device) of the clients row of the
\* client id it was given, so one client id never stands for two attribute triples; and
\* a handshake whose manager_id maps to a client id whose row differs from its
\* (ip, role, cuda_device) is answered with a rejection.
C11_ClientIdAttributes ==
    /\ \A a \in accepted : clients[a[2]] = Attributes(a[1])
    /\ \A c \in SeqToSet(connections) :
          clients[c.client_id][2] = c.client_role
          /\ GpuId(clients[c.client_id][1], clients[c.client_id][3]) = c.client_gpu_id
    /\ (/\ reply.kind # "none"
        /\ ~reply.inserted
        /\ reply.hs.manager_id \in DOMAIN manager_id_to_worker_id_map
        /\ clients[manager_id_to_worker_id_map[reply.hs.manager_id]] # Attributes(reply.hs))
       => reply.kind = "rejection"

\* A handshake with a known manager_id and changed attributes was rejected at the
\* validation of the clients row.
C11_Witness ==
    /\ reply.kind = "rejection"
    /\ reply.rejection = "worker attributes changed since last connection"
    /\ reply.hs.manager_id \in DOMAIN manager_id_to_worker_id_map
    /\ clients[manager_id_to_worker_id_map[reply.hs.manager_id]] # Attributes(reply.hs)

\* ------------------------------------------------------------------------
\* C12 as stated: the default table is returned when TRAINING has highest priority on it;
\* otherwise another table of the host is returned only if TRAINING has highest priority
\* on that table, and else the default table is returned.
C12_Original ==
    training_table.set =>
       /\ training_table.default_highest => training_table.result = default_training_gpu
       /\ ~training_table.default_highest =>
             IF training_table.other_highest # {}
             THEN training_table.result \in training_table.other_highest
             ELSE training_table.result = default_training_gpu

\* ------------------------------------------------------------------------
\* C15 as stated: a server is sent `start`, or has left the wait of _launch_self_play at
\* all, only when a model of generation >= 1 exists.
C15_Original ==
    \A s \in Servers :
       (rpc[s] \in {"self_play", "AssertionError"} \/ "start" \in SeqToSet(sent[s]))
          => latest_model_generation >= 1

\* ------------------------------------------------------------------------
\* C16: every start-gen0 carries max_rows = max(0, samples_per_window - gen-0 positions
\* recorded) as of the decision to launch, which is never 0; a server for which that
\* shortfall is 0 is not made owner and is sent no start-gen0, and gen-0 is complete.
C16_Gen0Shortfall ==
    \A s \in Servers :
       LET l == gen0_launch[s]
           diff == samples_per_window - l.positions
           shortfall == IF diff > 0 THEN diff ELSE 0
       IN  /\ l.max_rows # NotSent => l.max_rows = shortfall /\ l.max_rows > 0
           /\ (l.decided /\ ~l.was_complete /\ shortfall = 0) =>
                 /\ l.max_rows = NotSent
                 /\ rpc[s] \notin {"launch_gen0_self_play", "gen0"}
                 /\ gen0_owner # s
                 /\ l.complete

\* A server took over a partly recorded gen-0 and was sent the remaining shortfall.
C16_Witness ==
    \E s \in Servers :
       /\ gen0_launch[s].max_rows # NotSent
       /\ gen0_launch[s].positions > 0
       /\ gen0_launch[s].max_rows = samples_per_window - gen0_launch[s].positions

\* ------------------------------------------------------------------------
\* Gen-0 completion has been declared: a server has gone on from gen-0 to the launch of
\* self-play, which happens only after _set_gen0_completion(True).
Gen0Declared ==
    \E s \in Servers : rpc[s] \in {"launch_self_play", "wait_gen1", "self_play", "AssertionError"}

\* C17 as stated (main-loop half): once gen-0 completion has been declared, the main loop
\* eventually leaves wait_for_gen0_completion.
C17_Original ==
    Gen0Declared ~> (mainpc \notin {"check_gen0", "set_gen0", "assign_gen0", "wait_gen0"})

\* ------------------------------------------------------------------------
\* A server that was made gen-0 owner and whose connection has been taken down.
FormerOwners ==
    {o \in Servers : rpc[o] = "gone" /\ gen0_launch[o].additional_gen0_rows_needed > 0}

\* C18: when the disconnect of the gen-0 owner is handled while no gen-0 position is
\* recorded, ownership is cleared and gen-0 is not declared complete; the next server
\* whose `ready` is then taken up (it may have been waiting) becomes the owner with the
\* full shortfall samples_per_window, and that is the max_rows of its start-gen0.
C18_OwnerDisconnectNoPositions ==
    [][\A s \in Servers :
          /\ (gen0_owner = s /\ rpc'[s] = "gone" /\ gen0_positions_recorded = 0) =>
                gen0_owner' = NoClientId /\ ~gen0_complete'
          /\ (/\ rpc[s] = "launch_gen0" /\ rpc'[s] # "launch_gen0"
              /\ FormerOwners # {} /\ gen0_positions_recorded = 0) =>
                /\ gen0_owner' = s
                /\ rpc'[s] = "launch_gen0_self_play"
                /\ gen0_launch'[s].additional_gen0_rows_needed = samples_per_window
          /\ (/\ rpc[s] = "launch_gen0_self_play" /\ rpc'[s] = "gen0"
              /\ gen0_launch[s].positions = 0) =>
                gen0_launch'[s].max_rows = samples_per_window]_vars

\* After an owner left with nothing recorded, another server runs gen-0 with the full
\* shortfall.
C18_Witness ==
    /\ FormerOwners # {}
    /\ \E s \in Servers :
          /\ rpc[s] = "gen0" /\ gen0_owner = s
          /\ gen0_launch[s].positions = 0
          /\ gen0_launch[s].max_rows = samples_per_window

\* ------------------------------------------------------------------------
\* C19: with samples_per_window = 0 and no game recorded, the main thread's
\* wait_for_gen0_completion computes complete = True and is never held at its wait, no
\* server becomes gen-0 owner and no start-gen0 is sent.
C19_ZeroSamplesPerWindow ==
    (samples_per_window = 0 /\ last_game.gen = NoRow) =>
       /\ mainpc \in {"set_gen0", "assign_gen0"} => main_complete
       /\ mainpc = "wait_gen0" => gen0_complete
       /\ gen0_owner = NoClientId
       /\ \A s \in Servers :
             /\ "start-gen0" \notin SeqToSet(sent[s])
             /\ rpc[s] \notin {"launch_gen0_self_play", "gen0"}

\* With samples_per_window = 0 the main thread is through wait_for_gen0_completion and a
\* server that sent ready is past the gen-0 launch.
C19_Witness ==
    /\ samples_per_window = 0 /\ last_game.gen = NoRow
    /\ mainpc = "train_gen1"
    /\ \E s \in Servers : rpc[s] = "wait_gen1"

\* ------------------------------------------------------------------------
\* C20: in a run taken up at generation RestartGen no server becomes gen-0 owner or is
\* sent start-gen0, and a server that sent ready is never held at the gen-1 wait of
\* _launch_self_play nor stopped by its assertions: `start` is its next message.
C20_RestartNoGen0 ==
    (latest_model_generation = RestartGen /\ last_game.gen = RestartGen) =>
       /\ gen0_owner = NoClientId
       /\ \A s \in Servers :
             /\ "start-gen0" \notin SeqToSet(sent[s])
             /\ rpc[s] \notin {"launch_gen0_self_play", "gen0", "AssertionError"}
             /\ rpc[s] = "wait_gen1" => gen1_model_trained
             /\ rpc[s] = "self_play" => sent[s] = <<"start">>

\* In a restarted run a server was sent `start` before the main thread did anything.
C20_Witness ==
    /\ latest_model_generation = RestartGen /\ last_game.gen = RestartGen
    /\ mainpc = "check_gen0"
    /\ \E s \in Servers : sent[s] = <<"start">>

\* ------------------------------------------------------------------------
\* C4: at most one self-play server is the gen-0 owner: every server that was designated
\* to run gen-0 (and is or is about to be sent start-gen0) is the current owner, so two
\* servers are never designated at once, and no message is sent to a server while another
\* server is the owner.
C4_SingleGen0Owner ==
    [][ /\ \A s \in Servers : rpc'[s] \in {"launch_gen0_self_play", "gen0"} => gen0_owner' = s
        /\ \A s \in Servers : sent'[s] # sent[s] => gen0_owner \in {NoClientId, s} ]_vars

\* Two servers sent `ready` while gen-0 is incomplete: one is the owner and was sent
\* start-gen0, the other is blocked and was sent nothing.
C4_Witness ==
    /\ ~gen0_complete
    /\ rpc[11] = "gen0" /\ sent[11] = <<"start-gen0">> /\ gen0_owner = 11
    /\ rpc[12] = "launch_gen0" /\ sent[12] = <<>>

\* ------------------------------------------------------------------------
\* C7: with max_positions_per_generation = M configured and gen > 0, a game whose rows
\* would bring the cumulative rows submitted for its gen above M is neither written to
\* disk nor appended to the pending list.
C7_Original ==
    (/\ use_data.set
     /\ use_data.gen > 0
     /\ max_positions_per_generation # NoLimit
     /\ use_data.cumulative_rows + use_data.rows > max_positions_per_generation)
    => (~use_data.written /\ ~use_data.appended)

\* C8: once all flushes have completed (pending list empty, no flush in progress), for
\* every gen in self_play_metadata the augmented_positions aggregate is the sum of the
\* rows of the gen's games and the games aggregate is their number.
C8_Original ==
    (/\ pending_game_data = <<>>
     /\ db_lock = NoThread
     /\ \A w \in Workers : gpc[w] = "recv")
    => \A g \in DOMAIN self_play_metadata :
          LET of_g == {r \in games : r.gen = g}
          IN  /\ self_play_metadata[g].augmented_positions = SumRows(of_g)
              /\ self_play_metadata[g].games = Cardinality(of_g)

\* C9: handle_new_self_play_positions(n) is called after the commit of the flush that
\* produced n, and n is the total rows of the games that flush inserted.
C9_Original ==
    notified.set => (notified.committed /\ notified.n = notified.inserted)

====
